---- MODULE Spec2Model ----
(***************************************************************************)
(* The lexer / parser / semantic analyzer / code generator chain of the    *)
(* voice-to-code prototype (src/python).                                   *)
(*                                                                         *)
(* Representation.  A text is a sequence of pieces.  An input text is a    *)
(* sequence of single characters.  A generated text is a sequence of       *)
(* lexemes (a token value, a fixed word of an f-string) in which every     *)
(* white-space character (" " and "\n") is a piece of its own, so that     *)
(* split('\n'), strip() and endswith(':') act on it as they act on the     *)
(* Python string.  Str(t) is the Python string a text stands for.          *)
(* Python's None is the reserved string None, which no lexeme equals.      *)
(***************************************************************************)
EXTENDS Integers, Sequences, FiniteSets, TLC

VARIABLES
    pc,               \* where the run is: "text", "scan", "lexed", "parsed", "analyzed", "generated"
    source,           \* where the run's input comes from (see Init)
    text,             \* the input of tokenize
    normalized_text,  \* tokenize's local normalized_text
    position,         \* tokenize's local position (0-based, as in Python)
    scan_log,         \* per iteration of the scan loop: position before and after, tokens emitted
    tokens,           \* the token list (tokenize's local, then the parser's input)
    map_calls,        \* how many times map_to_python_tokens has been applied
    before_map,       \* the token list the latest map_to_python_tokens was applied to
    ast,              \* what parse returned (NoAST: None)
    parse_raised,     \* the exception the descent raised (None: none)
    symbols,          \* SymbolTable.symbols
    current_scope,    \* SymbolTable.current_scope
    errors,           \* SemanticAnalyzer.errors
    is_valid,         \* what analyze returned
    visits,           \* the name checks the traversal of analyze made, in order
    sem_raised,       \* whether the traversal of analyze raised
    lookup_name,      \* the name the latest direct call of SymbolTable.lookup was given
    lookup_result,    \* what that call returned (NoSymbol: None)
    code,             \* what generate returned
    gen_raised,       \* the exception the traversal of generate raised (None: none)
    indent_level,     \* CodeGenerator.indent_level
    propagated,       \* the exception the latest operation let through to its caller (None: none)
    original_code,    \* the text given to SimpleSyntaxAnalyzer.parse (NoText: not given)
    current_token_index   \* SyntaxAnalyzer.current_token_index

lexVars == <<text, normalized_text, position, scan_log>>
tokVars == <<tokens, map_calls, before_map>>
parseVars == <<ast, parse_raised, original_code, current_token_index>>
semVars == <<symbols, current_scope, errors, is_valid, visits, sem_raised, lookup_name,
             lookup_result>>
genVars == <<code, gen_raised, indent_level>>
vars == <<pc, source, lexVars, tokVars, parseVars, semVars, genVars, propagated>>

\* Python's None.
None == "<None>"

\* "v = value; ...": the rest of the method, K, runs on the value, which is
\* computed once.
With(v, K(_)) == CHOOSE r \in {K(x) : x \in {v}} : TRUE

----------------------------------------------------------------------------
(* Characters *)

LowerLetters == <<"a","b","c","d","e","f","g","h","i","j","k","l","m",
                  "n","o","p","q","r","s","t","u","v","w","x","y","z">>
UpperLetters == <<"A","B","C","D","E","F","G","H","I","J","K","L","M",
                  "N","O","P","Q","R","S","T","U","V","W","X","Y","Z">>
AccentedLetters == {"á","é","í","ó","ú","ñ"}
Digits == {"0","1","2","3","4","5","6","7","8","9"}
Whitespace == {" ", "\n", "\t"}
AsciiLetters == {LowerLetters[i] : i \in 1..26} \cup {UpperLetters[i] : i \in 1..26}

\* str.lower() on one character.
Lower(c) ==
    IF \E i \in 1..26 : UpperLetters[i] = c
    THEN LowerLetters[CHOOSE i \in 1..26 : UpperLetters[i] = c]
    ELSE c

\* The regex class \w (Unicode aware) and the punctuation normalize_text keeps.
WordChars == AsciiLetters \cup Digits \cup {"_"} \cup AccentedLetters
BasicPunctuation == {".", ",", ";", ":", "?", "!", "¿", "¡"}

RECURSIVE Str(_)
Str(t) == IF t = <<>> THEN "" ELSE Head(t) \o Str(Tail(t))

RECURSIVE Concat(_)
Concat(ss) == IF ss = <<>> THEN <<>> ELSE Head(ss) \o Concat(Tail(ss))

\* s.strip(), s.rstrip() on a text.
RECURSIVE LStrip(_)
LStrip(t) == IF t # <<>> /\ Head(t) \in Whitespace THEN LStrip(Tail(t)) ELSE t
RECURSIVE RStrip(_)
RStrip(t) ==
    IF t # <<>> /\ t[Len(t)] \in Whitespace THEN RStrip(SubSeq(t, 1, Len(t) - 1)) ELSE t
Strip(t) == LStrip(RStrip(t))

----------------------------------------------------------------------------
(* utils.normalize_text *)

\* re.sub(r'\s+', ' ', text): every run of white space becomes one space.
RECURSIVE CollapseSpaces(_)
CollapseSpaces(t) ==
    IF t = <<>> THEN <<>>
    ELSE IF Head(t) \in Whitespace
         THEN <<" ">> \o CollapseSpaces(LStrip(t))
         ELSE <<Head(t)>> \o CollapseSpaces(Tail(t))

normalize_text_keeping_symbols(t) ==
    With([i \in 1..Len(t) |-> Lower(t[i])], LAMBDA lowered :
    With(CollapseSpaces(lowered), LAMBDA collapsed : Strip(collapsed)))

normalize_text(t) ==
    LET kept(c) == c \in WordChars \cup Whitespace \cup BasicPunctuation
    IN  With([i \in 1..Len(t) |-> Lower(t[i])], LAMBDA lowered :
        With(SelectSeq(lowered, kept), LAMBDA cleaned :
        With(CollapseSpaces(cleaned), LAMBDA collapsed : Strip(collapsed))))

----------------------------------------------------------------------------
(* config.py *)

KEYWORD_MAPPING_chained ==
    ("si" :> "sino") @@ ("sino" :> "else") @@ ("para" :> "for") @@
    ("mientras" :> "while") @@ ("en" :> "in") @@ ("rango" :> "range") @@
    ("función" :> "def") @@ ("funcion" :> "def") @@ ("devolver" :> "return") @@
    ("verdadero" :> "True") @@ ("falso" :> "False") @@ ("y" :> "and") @@
    ("o" :> "or") @@ ("no" :> "not") @@ ("imprimir" :> "print") @@
    ("clase" :> "class")

KEYWORD_MAPPING ==
    ("si" :> "if") @@ ("sino" :> "else") @@ ("para" :> "for") @@
    ("mientras" :> "while") @@ ("en" :> "in") @@ ("rango" :> "range") @@
    ("función" :> "def") @@ ("funcion" :> "def") @@ ("devolver" :> "return") @@
    ("verdadero" :> "True") @@ ("falso" :> "False") @@ ("y" :> "and") @@
    ("o" :> "or") @@ ("no" :> "not") @@ ("imprimir" :> "print") @@
    ("clase" :> "class")

\* The category lists, in the dictionary's order.
SPECIAL_TOKENS ==
    << [type |-> "VARIABLE",  words |-> {"var", "variable"}],
       [type |-> "FUNCTION",  words |-> {"función", "funcion", "def", "definir"}],
       [type |-> "LOOP",      words |-> {"para", "mientras", "for", "while"}],
       [type |-> "CONDITION", words |-> {"si", "if", "sino", "else"}],
       [type |-> "OPERATOR",  words |-> {"más", "mas", "menos", "por", "dividido",
                                         "igual", "mayor", "menor"}],
       [type |-> "DATA_TYPE", words |-> {"entero", "flotante", "cadena", "booleano",
                                         "lista", "diccionario"}] >>

----------------------------------------------------------------------------
(* lexical_analyzer.py *)

Token(token_type, value, pos) == [type |-> token_type, value |-> value, position |-> pos]

PythonKeywords ==
    {"def", "if", "else", "elif", "for", "while", "in", "return", "and", "or",
     "not", "True", "False", "None", "print", "class"}

\* _identify_word that tries the special-token categories before the keyword
\* mapping.
_identify_word_categories_first(match, pos) ==
    With(Str([i \in 1..Len(match) |-> Lower(match[i])]), LAMBDA word :
        IF word \in PythonKeywords THEN Token("KEYWORD", word, pos)
        ELSE IF \E k \in 1..Len(SPECIAL_TOKENS) : word \in SPECIAL_TOKENS[k].words
        THEN Token(SPECIAL_TOKENS[CHOOSE k \in 1..Len(SPECIAL_TOKENS) :
                                      word \in SPECIAL_TOKENS[k].words].type, word, pos)
        ELSE IF word \in DOMAIN KEYWORD_MAPPING
        THEN Token("KEYWORD", KEYWORD_MAPPING[word], pos)
        ELSE Token("IDENTIFIER", word, pos))

_identify_word(match, pos) ==
    With(Str([i \in 1..Len(match) |-> Lower(match[i])]), LAMBDA word :
        IF word \in PythonKeywords THEN Token("KEYWORD", word, pos)
        ELSE IF word \in DOMAIN KEYWORD_MAPPING
             THEN Token("KEYWORD", KEYWORD_MAPPING[word], pos)
        ELSE IF \E k \in 1..Len(SPECIAL_TOKENS) : word \in SPECIAL_TOKENS[k].words
             THEN LET first == CHOOSE k \in 1..Len(SPECIAL_TOKENS) :
                                  /\ word \in SPECIAL_TOKENS[k].words
                                  /\ \A j \in 1..(k - 1) : word \notin SPECIAL_TOKENS[j].words
                  IN  Token(SPECIAL_TOKENS[first].type, word, pos)
        ELSE Token("IDENTIFIER", word, pos))

\* The end of the longest run of characters of class C that starts at offset p.
RunEnd(s, p, C) ==
    CHOOSE q \in p..Len(s) :
        /\ \A k \in (p + 1)..q : s[k] \in C
        /\ (q = Len(s) \/ s[q + 1] \notin C)

NoMatch == -1
OperatorChars == {"+", "-", "*", "/", "=", "<", ">", "!"}
DelimiterChars == {"(", ")", "[", "]", "{", "}", ",", ";", ":"}
PatternNames == <<"WORD", "FLOAT", "INTEGER", "OPERATOR", "DELIMITER",
                  "STRING2", "STRING1", "SPACE">>

\* regex.match(s, p) for the k-th pattern: the match's end, or NoMatch.
MatchEnd(k, s, p) ==
    LET c == s[p + 1]
        quoted(q) == IF c = q /\ \E j \in (p + 2)..Len(s) : s[j] = q
                     THEN CHOOSE j \in (p + 2)..Len(s) :
                              s[j] = q /\ \A i \in (p + 2)..(j - 1) : s[i] # q
                     ELSE NoMatch
    IN  CASE PatternNames[k] = "WORD" ->
               IF c \in AsciiLetters \cup {"_"}
               THEN RunEnd(s, p + 1, AsciiLetters \cup Digits \cup {"_"}) ELSE NoMatch
          [] PatternNames[k] = "FLOAT" ->
               LET d == RunEnd(s, p, Digits)
               IN  IF d > p /\ d < Len(s) /\ s[d + 1] = "." /\ RunEnd(s, d + 1, Digits) > d + 1
                   THEN RunEnd(s, d + 1, Digits) ELSE NoMatch
          [] PatternNames[k] = "INTEGER" ->
               IF c \in Digits THEN RunEnd(s, p, Digits) ELSE NoMatch
          [] PatternNames[k] = "OPERATOR" ->
               IF c \in OperatorChars
               THEN (IF p + 1 < Len(s) /\ s[p + 2] = "=" THEN p + 2 ELSE p + 1)
               ELSE NoMatch
          [] PatternNames[k] = "DELIMITER" ->
               IF c \in DelimiterChars THEN p + 1 ELSE NoMatch
          [] PatternNames[k] = "STRING2" -> quoted("\"")
          [] PatternNames[k] = "STRING1" -> quoted("'")
          [] PatternNames[k] = "SPACE" ->
               IF c \in Whitespace THEN RunEnd(s, p, Whitespace) ELSE NoMatch

\* token_func(match, position) of the k-th pattern: the tokens it emits.
TokenFunc(k, match, p) ==
    CASE PatternNames[k] = "WORD"      -> <<_identify_word(match, p)>>
      [] PatternNames[k] = "FLOAT"     -> <<Token("FLOAT", Str(match), p)>>
      [] PatternNames[k] = "INTEGER"   -> <<Token("INTEGER", Str(match), p)>>
      [] PatternNames[k] = "OPERATOR"  -> <<Token("OPERATOR", Str(match), p)>>
      [] PatternNames[k] = "DELIMITER" -> <<Token("DELIMITER", Str(match), p)>>
      [] PatternNames[k] = "STRING2"   -> <<Token("STRING", Str(match), p)>>
      [] PatternNames[k] = "STRING1"   -> <<Token("STRING", Str(match), p)>>
      [] PatternNames[k] = "SPACE"     -> <<>>

\* The loop's iteration that gives up at a character no pattern matches and
\* jumps to the end of the text.
ScanAtGivingUp(s, p) ==
    With({k \in 1..Len(PatternNames) : MatchEnd(k, s, p) # NoMatch}, LAMBDA matching :
        IF matching = {}
        THEN [emitted |-> <<>>, position |-> Len(s), pattern |-> 0]
        ELSE With(CHOOSE k \in matching : \A j \in matching : k <= j, LAMBDA k :
             With(MatchEnd(k, s, p), LAMBDA e :
             With(SubSeq(s, p + 1, e), LAMBDA match :
                 [emitted |-> TokenFunc(k, match, p), position |-> e, pattern |-> k]))))

\* One iteration of tokenize's while loop at offset p: the first pattern that
\* matches decides; with no match the position advances by one character.
ScanAt(s, p) ==
    With({k \in 1..Len(PatternNames) : MatchEnd(k, s, p) # NoMatch}, LAMBDA matching :
        IF matching = {}
        THEN [emitted |-> <<>>, position |-> p + 1, pattern |-> 0]
        ELSE With(CHOOSE k \in matching : \A j \in matching : k <= j, LAMBDA k :
             With(MatchEnd(k, s, p), LAMBDA e :
             With(SubSeq(s, p + 1, e), LAMBDA match :
                 [emitted |-> TokenFunc(k, match, p), position |-> e, pattern |-> k]))))

map_to_python_tokens(toks) ==
    [i \in 1..Len(toks) |->
        IF toks[i].type = "KEYWORD" /\ toks[i].value \in DOMAIN KEYWORD_MAPPING
        THEN Token(toks[i].type, KEYWORD_MAPPING[toks[i].value], toks[i].position)
        ELSE toks[i]]

----------------------------------------------------------------------------
(* syntax_analyzer.py *)

ASTNode(node_type, value, children) ==
    [type |-> node_type, value |-> value, children |-> children]

\* What parse returns when the descent raised.
NoAST == ASTNode(None, None, <<>>)

\* The result of a parsing method: the node built, the cursor after it, and
\* the exception it raised (None: it returned normally).
Returned(node, i) == [node |-> node, idx |-> i, exc |-> None]
Raised(msg, i) == [node |-> NoAST, idx |-> i, exc |-> msg]

current_token(toks, i) == IF i < Len(toks) THEN toks[i + 1] ELSE Token("EOF", "", -1)
peek_next_token(toks, i) == IF i + 1 < Len(toks) THEN toks[i + 2] ELSE Token("EOF", "", -1)

IsDelimiter(toks, i, v) ==
    current_token(toks, i).type = "DELIMITER" /\ current_token(toks, i).value = v
IsKeyword(toks, i, v) ==
    current_token(toks, i).type = "KEYWORD" /\ current_token(toks, i).value = v

\* expect that consumes the current token whatever its type.
expect_unchecked(toks, i, token_type) == Returned(current_token(toks, i), i + 1)

\* expect(token_type): the token consumed, or SyntaxError.
expect(toks, i, token_type) ==
    IF current_token(toks, i).type # token_type
    THEN Raised("Se esperaba " \o token_type \o ", pero se encontró "
                    \o current_token(toks, i).type, i)
    ELSE Returned(current_token(toks, i), i + 1)

\* "r = call(); ..." with the exception of the call passed on: the rest of the
\* method is K.
Bind(r, K(_)) == IF r.exc # None THEN r ELSE K(r)

RECURSIVE parse_statement(_, _), parse_function_definition(_, _), parse_if_statement(_, _)
RECURSIVE parse_loop(_, _), parse_block(_, _), parse_expression_statement(_, _)
RECURSIVE parse_expression(_, _), parse_arguments(_, _, _), parse_parameters(_, _, _)
RECURSIVE parse_program_loop(_, _, _)

\* The "while True" loop over the call arguments (lines 395-402): the
\* ARGUMENTS node.
parse_arguments(toks, i, args) ==
    Bind(parse_expression(toks, i), LAMBDA r :
        IF IsDelimiter(toks, r.idx, ",")
        THEN parse_arguments(toks, r.idx + 1, Append(args, r.node))
        ELSE Returned(ASTNode("ARGUMENTS", None, Append(args, r.node)), r.idx))

\* parse_expression that leaves a token it does not recognise where it is.
parse_expression_leaving_unknown(toks, i) ==
    With(current_token(toks, i), LAMBDA token :
        IF token.type \in {"INTEGER", "FLOAT", "STRING"}
        THEN Returned(ASTNode("LITERAL", token.value, <<>>), i + 1)
        ELSE IF token.type = "IDENTIFIER"
        THEN IF IsDelimiter(toks, i + 1, "(")
             THEN Bind(IF ~IsDelimiter(toks, i + 2, ")")
                       THEN parse_arguments(toks, i + 2, <<>>)
                       ELSE Returned(ASTNode("ARGUMENTS", None, <<>>), i + 2), LAMBDA a :
                  Bind(expect(toks, a.idx, "DELIMITER"), LAMBDA e :
                  Returned(ASTNode("FUNCTION_CALL", token.value, <<a.node>>), e.idx)))
             ELSE Returned(ASTNode("VARIABLE", token.value, <<>>), i + 1)
        ELSE IF token.type = "DELIMITER" /\ token.value = "("
        THEN Bind(parse_expression(toks, i + 1), LAMBDA r :
             Bind(expect(toks, r.idx, "DELIMITER"), LAMBDA e :
             Returned(r.node, e.idx)))
        ELSE Returned(ASTNode("EXPRESSION", token.value, <<>>), i))

parse_expression(toks, i) ==
    With(current_token(toks, i), LAMBDA token :
        IF token.type \in {"INTEGER", "FLOAT"}
        THEN Returned(ASTNode("LITERAL", token.value, <<>>), i + 1)
        ELSE IF token.type = "STRING"
        THEN Returned(ASTNode("LITERAL", token.value, <<>>), i + 1)
        ELSE IF token.type = "IDENTIFIER"
        THEN IF IsDelimiter(toks, i + 1, "(")
             THEN Bind(IF ~IsDelimiter(toks, i + 2, ")")
                       THEN parse_arguments(toks, i + 2, <<>>)
                       ELSE Returned(ASTNode("ARGUMENTS", None, <<>>), i + 2), LAMBDA a :
                  Bind(expect(toks, a.idx, "DELIMITER"), LAMBDA e :
                  Returned(ASTNode("FUNCTION_CALL", token.value, <<a.node>>), e.idx)))
             ELSE Returned(ASTNode("VARIABLE", token.value, <<>>), i + 1)
        ELSE IF token.type = "DELIMITER" /\ token.value = "("
        THEN Bind(parse_expression(toks, i + 1), LAMBDA r :
             Bind(expect(toks, r.idx, "DELIMITER"), LAMBDA e :
             Returned(r.node, e.idx)))
        ELSE Returned(ASTNode("EXPRESSION", token.value, <<>>), i + 1))

parse_expression_statement(toks, i) ==
    IF /\ current_token(toks, i).type = "IDENTIFIER"
       /\ peek_next_token(toks, i).type = "OPERATOR"
       /\ peek_next_token(toks, i).value = "="
    THEN Bind(parse_expression(toks, i + 2), LAMBDA r :
         Returned(ASTNode("ASSIGNMENT", None,
                          <<ASTNode("VARIABLE", current_token(toks, i).value, <<>>), r.node>>),
                  r.idx))
    ELSE parse_expression(toks, i)

\* parse_block that keeps taking statements to the end of the input.
parse_block_greedy(toks, i) ==
    Bind(parse_program_loop(toks, IF IsDelimiter(toks, i, ":") THEN i + 1 ELSE i, <<>>),
         LAMBDA r : Returned(ASTNode("BLOCK", None, r.node.children), r.idx))

parse_block(toks, i) ==
    With(IF IsDelimiter(toks, i, ":") THEN i + 1 ELSE i, LAMBDA i1 :
        IF current_token(toks, i1).type # "EOF"
        THEN Bind(parse_statement(toks, i1), LAMBDA r :
             Returned(ASTNode("BLOCK", None, <<r.node>>), r.idx))
        ELSE Returned(ASTNode("BLOCK", None, <<>>), i1))

\* The "while True" loop over the parameter names (lines 206-218): the
\* PARAMETERS node.
parse_parameters(toks, i, params) ==
    IF current_token(toks, i).type # "IDENTIFIER"
    THEN Returned(ASTNode("PARAMETERS", None, params), i)
    ELSE With(Append(params, ASTNode("PARAMETER", current_token(toks, i).value, <<>>)),
              LAMBDA added :
                  IF IsDelimiter(toks, i + 1, ",")
                  THEN parse_parameters(toks, i + 2, added)
                  ELSE Returned(ASTNode("PARAMETERS", None, added), i + 1))

\* parse_function_definition that leaves out the PARAMETERS node of a function
\* without parameters.
parse_function_definition_bare(toks, i) ==
    With(IF IsDelimiter(toks, i + 2, "(") THEN i + 3 ELSE i + 2, LAMBDA i3 :
    With(IF ~IsDelimiter(toks, i3, ")")
         THEN parse_parameters(toks, i3, <<>>)
         ELSE Returned(ASTNode("PARAMETERS", None, <<>>), i3), LAMBDA p :
    Bind(parse_block(toks, IF IsDelimiter(toks, p.idx, ")") THEN p.idx + 1 ELSE p.idx),
         LAMBDA body :
    Returned(ASTNode("FUNCTION_DEF", current_token(toks, i + 1).value,
                     IF p.node.children = <<>> THEN <<body.node>>
                     ELSE <<p.node, body.node>>),
             body.idx))))

parse_function_definition(toks, i) ==
    With(IF IsDelimiter(toks, i + 2, "(") THEN i + 3 ELSE i + 2, LAMBDA i3 :
    With(IF ~IsDelimiter(toks, i3, ")")
         THEN parse_parameters(toks, i3, <<>>)
         ELSE Returned(ASTNode("PARAMETERS", None, <<>>), i3), LAMBDA p :
    Bind(parse_block(toks, IF IsDelimiter(toks, p.idx, ")") THEN p.idx + 1 ELSE p.idx),
         LAMBDA body :
    Returned(ASTNode("FUNCTION_DEF", current_token(toks, i + 1).value, <<p.node, body.node>>),
             body.idx))))

parse_if_statement(toks, i) ==
    Bind(parse_expression(toks, i + 1), LAMBDA c :
    Bind(parse_block(toks, c.idx), LAMBDA t :
    With(<<ASTNode("CONDITION", None, <<c.node>>), ASTNode("THEN", None, <<t.node>>)>>,
         LAMBDA head :
    IF IsKeyword(toks, t.idx, "else")
    THEN Bind(parse_block(toks, t.idx + 1), LAMBDA e :
         Returned(ASTNode("IF_STATEMENT", None,
                          Append(head, ASTNode("ELSE", None, <<e.node>>))), e.idx))
    ELSE Returned(ASTNode("IF_STATEMENT", None, head), t.idx))))

parse_loop(toks, i) ==
    IF current_token(toks, i).value = "for"
    THEN Bind(expect(toks, i + 1, "IDENTIFIER"), LAMBDA v :
         IF ~IsKeyword(toks, v.idx, "in")
         THEN Raised("Se esperaba 'in' después del identificador en un bucle for", v.idx)
         ELSE Bind(parse_expression(toks, v.idx + 1), LAMBDA it :
              Bind(parse_block(toks, it.idx), LAMBDA b :
              Returned(ASTNode("FOR_LOOP", None,
                               <<ASTNode("VARIABLE", v.node.value, <<>>),
                                 ASTNode("ITERABLE", None, <<it.node>>),
                                 ASTNode("BODY", None, <<b.node>>)>>), b.idx))))
    ELSE Bind(parse_expression(toks, i + 1), LAMBDA c :
         Bind(parse_block(toks, c.idx), LAMBDA b :
         Returned(ASTNode("WHILE_LOOP", None,
                          <<ASTNode("CONDITION", None, <<c.node>>),
                            ASTNode("BODY", None, <<b.node>>)>>), b.idx)))

parse_statement(toks, i) ==
    IF IsKeyword(toks, i, "def") THEN parse_function_definition(toks, i)
    ELSE IF IsKeyword(toks, i, "if") THEN parse_if_statement(toks, i)
    ELSE IF current_token(toks, i).type = "KEYWORD"
            /\ current_token(toks, i).value \in {"for", "while"}
    THEN parse_loop(toks, i)
    ELSE parse_expression_statement(toks, i)

\* The while loop of parse_program (lines 139-142).
parse_program_loop(toks, i, children) ==
    IF current_token(toks, i).type = "EOF"
    THEN Returned(ASTNode("PROGRAM", None, children), i)
    ELSE Bind(parse_statement(toks, i), LAMBDA r :
         parse_program_loop(toks, r.idx, Append(children, r.node)))

parse_program(toks) == parse_program_loop(toks, 0, <<>>)

\* What parse hands to its caller from the descent's result r: the AST returned
\* (NoAST for None), the exception that reaches the caller, and the exception
\* the descent raised.
ParseOutcome(r) ==
    [ast |-> IF r.exc # None THEN NoAST ELSE r.node, propagated |-> None, raised |-> r.exc]
ParseOutcomeUnguarded(r) == [ast |-> r.node, propagated |-> r.exc, raised |-> r.exc]

\* parse without its try/except: the exception of the descent reaches the caller.
parse_unguarded(toks) == ParseOutcomeUnguarded(parse_program(toks))

parse(toks) == ParseOutcome(parse_program(toks))

----------------------------------------------------------------------------
(* semantic_analyzer.py *)

\* An f-string's interpolation of a value: str(value), None as "None".
Format(v) == IF v = None THEN "None" ELSE v

Symbol(name, symbol_type, scope) == [name |-> name, type |-> symbol_type, scope |-> scope]

\* What lookup returns when it finds nothing.
NoSymbol == Symbol(None, None, None)

\* The analyzer's state during a traversal: the symbol table, the error list,
\* the name checks made so far, and whether an exception is propagating.
\* enter_scope that starts the scope anew each time it is entered.
enter_scope_clearing(st, scope_name) ==
    [st EXCEPT !.symbols = [sc \in DOMAIN @ \cup {scope_name} |->
                               IF sc = scope_name THEN << >> ELSE @[sc]],
               !.current_scope = scope_name]

\* enter_scope that makes the scope current without creating it.
enter_scope_without_creating(st, scope_name) == [st EXCEPT !.current_scope = scope_name]

enter_scope(st, scope_name) ==
    [st EXCEPT !.symbols = IF scope_name \in DOMAIN st.symbols THEN @
                           ELSE @ @@ (scope_name :> << >>),
               !.current_scope = scope_name]

\* exit_scope as a pop: back to the scope that holds the function whose scope
\* is left, 'global' when there is none.
exit_scope_to_enclosing(st) ==
    With({sc \in DOMAIN st.symbols :
              /\ sc # st.current_scope
              /\ st.current_scope \in DOMAIN st.symbols[sc]
              /\ st.symbols[sc][st.current_scope].type = "FUNCTION"}, LAMBDA enclosing :
        [st EXCEPT !.current_scope =
            IF enclosing = {} THEN "global"
            ELSE IF enclosing = {"global"} THEN "global"
            ELSE CHOOSE sc \in enclosing : sc # "global"])

exit_scope(st) == [st EXCEPT !.current_scope = "global"]

add_symbol(st, name, symbol_type) ==
    LET scope == st.symbols[st.current_scope]
        entry == (name :> Symbol(name, symbol_type, st.current_scope))
    IN  [st EXCEPT !.symbols[st.current_scope] = entry @@ scope]

\* lookup that searches the global scope only.
lookup_global_only(table, scope, name) ==
    IF name \in DOMAIN table["global"] THEN table["global"][name] ELSE NoSymbol

lookup(table, scope, name) ==
    IF name \in DOMAIN table[scope] THEN table[scope][name]
    ELSE IF name \in DOMAIN table["global"] THEN table["global"][name]
    ELSE NoSymbol

Found(st, name) == lookup(st.symbols, st.current_scope, name) # NoSymbol

AddError(st, msg) == [st EXCEPT !.errors = Append(@, msg)]
\* Records that the node of the given type looked its name up, and what it found.
Visit(st, node_type, name) ==
    [st EXCEPT !.visits = Append(@, [node |-> node_type, name |-> name,
                                    found |-> lookup(st.symbols, st.current_scope, name).type])]
\* node.children[k] on a node with fewer children: IndexError.
IndexError(st) == [st EXCEPT !.raised = TRUE]

\* "...; rest" in a method of the analyzer: the rest K runs unless an exception
\* is propagating.
Step(st, K(_)) == IF st.raised THEN st ELSE K(st)

RECURSIVE _analyze_node(_, _), _analyze_children(_, _), _analyze_function_def(_, _)
RECURSIVE _analyze_if_statement(_, _), _analyze_for_loop(_, _), _analyze_while_loop(_, _)
RECURSIVE _analyze_assignment(_, _), _analyze_function_call(_, _)

\* "for child in children: self._analyze_node(child)" that gives up at the
\* first error found.
RECURSIVE _analyze_children_until_error(_, _)
_analyze_children_until_error(st, children) ==
    IF st.raised \/ children = <<>> \/ st.errors # <<>> THEN st
    ELSE _analyze_children_until_error(_analyze_node(st, Head(children)), Tail(children))

\* "for child in children: self._analyze_node(child)"
_analyze_children(st, children) ==
    IF st.raised \/ children = <<>> THEN st
    ELSE _analyze_children(_analyze_node(st, Head(children)), Tail(children))

_analyze_program(st, node) == _analyze_children(st, node.children)
_analyze_block(st, node) == _analyze_children(st, node.children)

RECURSIVE add_parameters(_, _)
add_parameters(st, params) ==
    IF params = <<>> THEN st
    ELSE add_parameters(add_symbol(st, Head(params).value, "PARAMETER"), Tail(params))

\* _analyze_function_def that rejects a redefinition: it reports it and leaves
\* the symbol table and the body alone.
_analyze_function_def_first_wins(st, node) ==
    IF Found(st, node.value)
    THEN AddError(Visit(st, "FUNCTION_DEF", node.value),
                  "Función '" \o Format(node.value) \o "' ya definida")
    ELSE With(enter_scope(add_symbol(Visit(st, "FUNCTION_DEF", node.value),
                                     node.value, "FUNCTION"), node.value), LAMBDA s2 :
         IF Len(node.children) < 1 THEN IndexError(s2)
         ELSE With(add_parameters(s2, node.children[1].children), LAMBDA s3 :
              IF Len(node.children) < 2 THEN IndexError(s3)
              ELSE Step(_analyze_node(s3, node.children[2]), LAMBDA s4 : exit_scope(s4))))

\* _analyze_function_def that registers the function after its body.
_analyze_function_def_registering_last(st, node) ==
    With(enter_scope(IF Found(st, node.value)
                     THEN AddError(Visit(st, "FUNCTION_DEF", node.value),
                                   "Función '" \o Format(node.value) \o "' ya definida")
                     ELSE Visit(st, "FUNCTION_DEF", node.value),
                     node.value), LAMBDA s2 :
    IF Len(node.children) < 1 THEN IndexError(s2)
    ELSE With(add_parameters(s2, node.children[1].children), LAMBDA s3 :
         IF Len(node.children) < 2 THEN IndexError(s3)
         ELSE Step(_analyze_node(s3, node.children[2]), LAMBDA s4 :
              add_symbol(exit_scope(s4), node.value, "FUNCTION"))))

_analyze_function_def(st, node) ==
    With(enter_scope(add_symbol(IF Found(st, node.value)
                                THEN AddError(Visit(st, "FUNCTION_DEF", node.value),
                                              "Función '" \o Format(node.value) \o "' ya definida")
                                ELSE Visit(st, "FUNCTION_DEF", node.value),
                                node.value, "FUNCTION"),
                     node.value), LAMBDA s2 :
    IF Len(node.children) < 1 THEN IndexError(s2)
    ELSE With(add_parameters(s2, node.children[1].children), LAMBDA s3 :
         IF Len(node.children) < 2 THEN IndexError(s3)
         ELSE Step(_analyze_node(s3, node.children[2]), LAMBDA s4 : exit_scope(s4))))

_analyze_if_statement(st, node) ==
    IF Len(node.children) < 1 THEN IndexError(st)
    ELSE Step(_analyze_node(st, node.children[1]), LAMBDA s1 :
         IF Len(node.children) < 2 THEN IndexError(s1)
         ELSE Step(_analyze_node(s1, node.children[2]), LAMBDA s2 :
              IF Len(node.children) > 2 THEN _analyze_node(s2, node.children[3]) ELSE s2))

_analyze_for_loop(st, node) ==
    IF Len(node.children) < 1 THEN IndexError(st)
    ELSE With(add_symbol(st, node.children[1].value, "VARIABLE"), LAMBDA s1 :
         IF Len(node.children) < 2 THEN IndexError(s1)
         ELSE Step(_analyze_node(s1, node.children[2]), LAMBDA s2 :
              IF Len(node.children) < 3 THEN IndexError(s2)
              ELSE _analyze_node(s2, node.children[3])))

_analyze_while_loop(st, node) ==
    IF Len(node.children) < 1 THEN IndexError(st)
    ELSE Step(_analyze_node(st, node.children[1]), LAMBDA s1 :
         IF Len(node.children) < 2 THEN IndexError(s1)
         ELSE _analyze_node(s1, node.children[2]))

\* _analyze_assignment that analyzes the value before it registers the target.
_analyze_assignment_value_first(st, node) ==
    IF Len(node.children) < 2 THEN IndexError(st)
    ELSE Step(_analyze_node(st, node.children[2]), LAMBDA s1 :
         IF ~Found(s1, node.children[1].value)
         THEN add_symbol(s1, node.children[1].value, "VARIABLE")
         ELSE s1)

_analyze_assignment(st, node) ==
    IF Len(node.children) < 1 THEN IndexError(st)
    ELSE With(IF ~Found(st, node.children[1].value)
              THEN add_symbol(st, node.children[1].value, "VARIABLE")
              ELSE st, LAMBDA s1 :
         IF Len(node.children) < 2 THEN IndexError(s1)
         ELSE _analyze_node(s1, node.children[2]))

\* _analyze_function_call whose kind test is inverted.
_analyze_function_call_inverted(st, node) ==
    With(lookup(st.symbols, st.current_scope, node.value), LAMBDA function_symbol :
    With(IF function_symbol = NoSymbol
         THEN AddError(Visit(st, "FUNCTION_CALL", node.value),
                       "Función '" \o Format(node.value) \o "' no definida")
         ELSE IF function_symbol.type = "FUNCTION"
         THEN AddError(Visit(st, "FUNCTION_CALL", node.value),
                       "'" \o Format(node.value) \o "' no es una función")
         ELSE Visit(st, "FUNCTION_CALL", node.value), LAMBDA s1 :
    IF Len(node.children) < 1 THEN IndexError(s1)
    ELSE _analyze_children(s1, node.children[1].children)))

\* _analyze_function_call that leaves the arguments alone after an error.
_analyze_function_call_skipping_arguments(st, node) ==
    With(lookup(st.symbols, st.current_scope, node.value), LAMBDA function_symbol :
    IF function_symbol = NoSymbol
    THEN AddError(Visit(st, "FUNCTION_CALL", node.value),
                  "Función '" \o Format(node.value) \o "' no definida")
    ELSE IF function_symbol.type # "FUNCTION"
    THEN AddError(Visit(st, "FUNCTION_CALL", node.value),
                  "'" \o Format(node.value) \o "' no es una función")
    ELSE With(Visit(st, "FUNCTION_CALL", node.value), LAMBDA s1 :
         IF Len(node.children) < 1 THEN IndexError(s1)
         ELSE _analyze_children(s1, node.children[1].children)))

_analyze_function_call(st, node) ==
    With(lookup(st.symbols, st.current_scope, node.value), LAMBDA function_symbol :
    With(IF function_symbol = NoSymbol
         THEN AddError(Visit(st, "FUNCTION_CALL", node.value),
                       "Función '" \o Format(node.value) \o "' no definida")
         ELSE IF function_symbol.type # "FUNCTION"
         THEN AddError(Visit(st, "FUNCTION_CALL", node.value),
                       "'" \o Format(node.value) \o "' no es una función")
         ELSE Visit(st, "FUNCTION_CALL", node.value), LAMBDA s1 :
    IF Len(node.children) < 1 THEN IndexError(s1)
    ELSE _analyze_children(s1, node.children[1].children)))

\* _analyze_variable that reports nothing.
_analyze_variable_silent(st, node) == Visit(st, "VARIABLE", node.value)

_analyze_variable(st, node) ==
    IF ~Found(st, node.value)
    THEN AddError(Visit(st, "VARIABLE", node.value),
                  "Variable '" \o Format(node.value) \o "' no definida")
    ELSE Visit(st, "VARIABLE", node.value)

_analyze_node(st, node) ==
    IF st.raised THEN st
    ELSE CASE node.type = "PROGRAM"       -> _analyze_program(st, node)
           [] node.type = "FUNCTION_DEF"  -> _analyze_function_def(st, node)
           [] node.type = "BLOCK"         -> _analyze_block(st, node)
           [] node.type = "IF_STATEMENT"  -> _analyze_if_statement(st, node)
           [] node.type = "FOR_LOOP"      -> _analyze_for_loop(st, node)
           [] node.type = "WHILE_LOOP"    -> _analyze_while_loop(st, node)
           [] node.type = "ASSIGNMENT"    -> _analyze_assignment(st, node)
           [] node.type = "FUNCTION_CALL" -> _analyze_function_call(st, node)
           [] node.type = "VARIABLE"      -> _analyze_variable(st, node)
           [] OTHER                       -> _analyze_children(st, node.children)

\* What analyze returns after the traversal left the state st: False when the
\* traversal raised, else whether the error list is empty.
AnalyzeOutcome(st) == st @@ [result |-> IF st.raised THEN FALSE ELSE st.errors = <<>>]

\* analyze that starts from a new symbol table.
analyze_on_new_table(table, scope, node) ==
    AnalyzeOutcome(_analyze_node([symbols |-> ("global" :> << >>), current_scope |-> "global",
                                  errors |-> <<>>, visits |-> <<>>, raised |-> FALSE], node))

\* analyze on an analyzer whose symbol table is `table`, in scope `scope`: the
\* state it leaves (errors reset at entry), with the boolean it returns.
analyze(table, scope, node) ==
    AnalyzeOutcome(_analyze_node([symbols |-> table, current_scope |-> scope,
                                  errors |-> <<>>, visits |-> <<>>, raised |-> FALSE], node))

----------------------------------------------------------------------------
(* utils.format_python_code *)

\* code.split('\n')
RECURSIVE Split(_, _)
Split(t, line) ==
    IF t = <<>> THEN <<line>>
    ELSE IF Head(t) = "\n" THEN <<line>> \o Split(Tail(t), <<>>)
    ELSE Split(Tail(t), Append(line, Head(t)))

\* '\n'.join(lines)
RECURSIVE Join(_)
Join(lines) ==
    IF lines = <<>> THEN <<>>
    ELSE IF Len(lines) = 1 THEN lines[1]
    ELSE lines[1] \o <<"\n">> \o Join(Tail(lines))

Spaces(n) == [i \in 1..n |-> " "]

\* One pass of the for loop of format_python_code over the stripped line:
\* the line appended (none for an empty line) and the indentation level after.
format_line(stripped, level) ==
    IF stripped # <<>> /\ stripped[Len(stripped)] = ":"
    THEN [out |-> <<Spaces(4 * level) \o stripped>>, level |-> level + 1]
    ELSE IF Str(stripped) \in {"else:", "elif:", "except:", "finally:"}
    THEN [out |-> <<Spaces(4 * (IF level > 0 THEN level - 1 ELSE 0)) \o stripped>>,
          level |-> (IF level > 0 THEN level - 1 ELSE 0) + 1]
    ELSE IF Str(stripped) \in {"break", "continue", "pass", "return"}
    THEN [out |-> <<Spaces(4 * level) \o stripped>>, level |-> level]
    ELSE IF stripped # <<>>
    THEN [out |-> <<Spaces(4 * level) \o stripped>>, level |-> level]
    ELSE [out |-> <<>>, level |-> level]

\* The for loop of format_python_code: the formatted lines.
RECURSIVE format_lines(_, _)
format_lines(lines, level) ==
    IF lines = <<>> THEN <<>>
    ELSE With(format_line(Strip(Head(lines)), level), LAMBDA f :
              f.out \o format_lines(Tail(lines), f.level))

format_python_code(c) == Join(format_lines(Split(c, <<>>), 0))

----------------------------------------------------------------------------
(* code_generator.py *)

indent_size == 4

\* The pieces of a Python str.
Lit(s) == IF s = "" THEN <<>> ELSE <<s>>
\* str(value)
PyStr(v) == IF v = None THEN <<"None">> ELSE Lit(v)

\* The result of a generating method: the text returned (is_none: it returned
\* None), the exception raised (None: it returned), and indent_level after it.
Code(c, level) == [code |-> c, is_none |-> FALSE, exc |-> None, level |-> level]
Value(v, level) == [code |-> Lit(v), is_none |-> v = None, exc |-> None, level |-> level]
Raise(msg, level) == [code |-> <<>>, is_none |-> FALSE, exc |-> msg, level |-> level]
\* "{r}" in an f-string.
Fmt(r) == IF r.is_none THEN <<"None">> ELSE r.code

_indent(level) == Spaces(level * indent_size)

RECURSIVE _generate_node(_, _), _generate_children(_, _, _, _), _generate_block_loop(_, _, _)
RECURSIVE _generate_function_def(_, _), _generate_if_statement(_, _), _generate_for_loop(_, _)
RECURSIVE _generate_while_loop(_, _), _generate_assignment(_, _), _generate_function_call(_, _)
RECURSIVE _generate_arguments_loop(_, _, _), _generate_first_child(_, _), _generate_indented(_, _, _)

\* A block child generated one indentation level deeper, with the 'pass' that
\* replaces an empty one: "self.indent_level += 1; ...; self.indent_level -= 1"
\* and the strip() test.
_generate_indented(child, level, pass_text) ==
    Bind(_generate_node(child, level + 1), LAMBDA r :
        IF r.is_none THEN Raise("'NoneType' object has no attribute 'strip'", r.level - 1)
        ELSE IF Strip(r.code) = <<>> THEN Code(_indent(r.level - 1) \o pass_text, r.level - 1)
        ELSE Code(r.code, r.level - 1))

\* "for child in children: code += self._generate_node(child) + tail"
_generate_children(children, acc, level, tail) ==
    IF children = <<>> THEN Code(acc, level)
    ELSE Bind(_generate_node(Head(children), level), LAMBDA r :
         IF r.is_none
         THEN Raise("unsupported operand type(s) for +: 'NoneType' and 'str'", r.level)
         ELSE _generate_children(Tail(children), acc \o r.code \o tail, r.level, tail))

_generate_program(node, level) ==
    Bind(_generate_children(node.children,
                            <<"#", " ", "Código", " ", "generado", " ", "automáticamente",
                              "\n", "\n">>,
                            level, <<"\n", "\n">>),
         LAMBDA r : Code(RStrip(r.code), r.level))

\* _generate_function_def that leaves an empty body empty.
_generate_function_def_without_pass(node, level) ==
    IF Len(node.children) < 1 THEN Raise("list index out of range", level)
    ELSE Bind(_generate_node(node.children[1], level), LAMBDA params :
         IF Len(node.children) < 2 THEN Raise("list index out of range", params.level)
         ELSE Bind(_generate_indented(node.children[2], params.level, <<>>), LAMBDA body :
              Code(<<"def", " ">> \o PyStr(node.value) \o <<"(">> \o Fmt(params)
                       \o <<")", ":", "\n">> \o body.code, body.level)))

_generate_function_def(node, level) ==
    IF Len(node.children) < 1 THEN Raise("list index out of range", level)
    ELSE Bind(_generate_node(node.children[1], level), LAMBDA params :
         IF Len(node.children) < 2 THEN Raise("list index out of range", params.level)
         ELSE Bind(_generate_indented(node.children[2], params.level, <<"pass">>), LAMBDA body :
              Code(<<"def", " ">> \o PyStr(node.value) \o <<"(">> \o Fmt(params)
                       \o <<")", ":", "\n">> \o body.code, body.level)))

_generate_block_loop(children, acc, level) ==
    IF children = <<>> THEN Code(acc, level)
    ELSE Bind(_generate_node(Head(children), level), LAMBDA r :
         IF r.is_none \/ r.code = <<>>
         THEN _generate_block_loop(Tail(children), acc, r.level)
         ELSE _generate_block_loop(Tail(children),
                                   acc \o _indent(r.level) \o r.code \o <<"\n">>, r.level))

_generate_block(node, level) == _generate_block_loop(node.children, <<>>, level)

_generate_if_statement(node, level) ==
    IF Len(node.children) < 1 THEN Raise("list index out of range", level)
    ELSE Bind(_generate_node(node.children[1], level), LAMBDA c :
         IF Len(node.children) < 2 THEN Raise("list index out of range", c.level)
         ELSE Bind(_generate_indented(node.children[2], c.level, <<"pass", "\n">>), LAMBDA t :
              With(<<"if", " ">> \o Fmt(c) \o <<":", "\n">> \o t.code, LAMBDA head :
              IF Len(node.children) > 2
              THEN Bind(_generate_indented(node.children[3], t.level, <<"pass", "\n">>),
                        LAMBDA e : Code(head \o <<"else", ":", "\n">> \o e.code, e.level))
              ELSE Code(head, t.level))))

_generate_for_loop(node, level) ==
    IF Len(node.children) < 1 THEN Raise("list index out of range", level)
    ELSE Bind(_generate_node(node.children[1], level), LAMBDA v :
         IF Len(node.children) < 2 THEN Raise("list index out of range", v.level)
         ELSE Bind(_generate_node(node.children[2], v.level), LAMBDA it :
              IF Len(node.children) < 3 THEN Raise("list index out of range", it.level)
              ELSE Bind(_generate_indented(node.children[3], it.level, <<"pass", "\n">>),
                        LAMBDA b :
                   Code(<<"for", " ">> \o Fmt(v) \o <<" ", "in", " ">> \o Fmt(it)
                            \o <<":", "\n">> \o b.code, b.level))))

_generate_while_loop(node, level) ==
    IF Len(node.children) < 1 THEN Raise("list index out of range", level)
    ELSE Bind(_generate_node(node.children[1], level), LAMBDA c :
         IF Len(node.children) < 2 THEN Raise("list index out of range", c.level)
         ELSE Bind(_generate_indented(node.children[2], c.level, <<"pass", "\n">>), LAMBDA b :
              Code(<<"while", " ">> \o Fmt(c) \o <<":", "\n">> \o b.code, b.level)))

\* _generate_assignment that drops the right-hand side.
_generate_assignment_target_only(node, level) ==
    IF Len(node.children) < 1 THEN Raise("list index out of range", level)
    ELSE _generate_node(node.children[1], level)

_generate_assignment(node, level) ==
    IF Len(node.children) < 1 THEN Raise("list index out of range", level)
    ELSE Bind(_generate_node(node.children[1], level), LAMBDA v :
         IF Len(node.children) < 2 THEN Raise("list index out of range", v.level)
         ELSE Bind(_generate_node(node.children[2], v.level), LAMBDA e :
              Code(Fmt(v) \o <<" ", "=", " ">> \o Fmt(e), e.level)))

_generate_function_call(node, level) ==
    IF Len(node.children) < 1 THEN Raise("list index out of range", level)
    ELSE Bind(_generate_node(node.children[1], level), LAMBDA a :
         Code(PyStr(node.value) \o <<"(">> \o Fmt(a) \o <<")">>, a.level))

_generate_variable(node, level) == Value(node.value, level)
_generate_literal(node, level) == Code(PyStr(node.value), level)
_generate_expression(node, level) == Code(PyStr(node.value), level)

\* _generate_condition, _then, _else, _iterable, _body: the first child's code.
_generate_first_child(node, level) ==
    IF node.children # <<>> THEN _generate_node(node.children[1], level) ELSE Code(<<>>, level)

\* ", ".join(items) of texts; a None item (is_none) is a TypeError.
JoinItems(items, level) ==
    IF \E k \in 1..Len(items) : items[k].is_none
    THEN Raise("sequence item "
                   \o ToString((CHOOSE k \in 1..Len(items) :
                                   /\ items[k].is_none
                                   /\ \A j \in 1..(k - 1) : ~items[j].is_none) - 1)
                   \o ": expected str instance, NoneType found", level)
    ELSE Code(Concat([k \in 1..Len(items) |->
                         (IF k > 1 THEN <<",", " ">> ELSE <<>>) \o items[k].code]), level)

_generate_parameters(node, level) ==
    JoinItems([k \in 1..Len(node.children) |-> Value(node.children[k].value, level)], level)

\* The loop of _generate_arguments and the join of what it collected.
_generate_arguments_loop(children, args, level) ==
    IF children = <<>> THEN JoinItems(args, level)
    ELSE Bind(_generate_node(Head(children), level), LAMBDA r :
         _generate_arguments_loop(Tail(children), Append(args, r), r.level))

_generate_arguments(node, level) == _generate_arguments_loop(node.children, <<>>, level)

_generate_node(node, level) ==
    CASE node.type = "PROGRAM"       -> _generate_program(node, level)
      [] node.type = "FUNCTION_DEF"  -> _generate_function_def(node, level)
      [] node.type = "BLOCK"         -> _generate_block(node, level)
      [] node.type = "IF_STATEMENT"  -> _generate_if_statement(node, level)
      [] node.type = "FOR_LOOP"      -> _generate_for_loop(node, level)
      [] node.type = "WHILE_LOOP"    -> _generate_while_loop(node, level)
      [] node.type = "ASSIGNMENT"    -> _generate_assignment(node, level)
      [] node.type = "FUNCTION_CALL" -> _generate_function_call(node, level)
      [] node.type = "VARIABLE"      -> _generate_variable(node, level)
      [] node.type = "LITERAL"       -> _generate_literal(node, level)
      [] node.type = "EXPRESSION"    -> _generate_expression(node, level)
      [] node.type \in {"CONDITION", "THEN", "ELSE", "ITERABLE", "BODY"}
                                     -> _generate_first_child(node, level)
      [] node.type = "PARAMETERS"    -> _generate_parameters(node, level)
      [] node.type = "ARGUMENTS"     -> _generate_arguments(node, level)
      [] OTHER                       -> Code(<<>>, level)

ErrorComment(e) ==
    <<"#", " ", "Error", " ", "en", " ", "la", " ", "generación", " ", "de", " ",
      "código", ":", " ", e>>

\* The try block of generate: the traversal, then format_python_code.
GenerateBody(node, level) ==
    Bind(_generate_node(node, level), LAMBDA r :
        IF r.is_none THEN Raise("'NoneType' object has no attribute 'split'", r.level)
        ELSE Code(format_python_code(r.code), r.level))

\* What generate hands to its caller from the result r of its try block: the
\* string returned, the exception that reaches the caller, the exception the
\* try block raised, and indent_level afterwards.
GenerateOutcome(r) ==
    [code |-> IF r.exc # None THEN ErrorComment(r.exc) ELSE r.code,
     propagated |-> None, raised |-> r.exc, level |-> r.level]
GenerateOutcomeUnguarded(r) ==
    [code |-> r.code, propagated |-> r.exc, raised |-> r.exc, level |-> r.level]

\* generate without its try/except.
generate_unguarded(node, level) == GenerateOutcomeUnguarded(GenerateBody(node, level))

generate(node, level) == GenerateOutcome(GenerateBody(node, level))

----------------------------------------------------------------------------
(* simple_syntax_analyzer.py, simple_semantic_analyzer.py, simple_code_generator.py *)

\* None where a text is expected.
NoText == <<None>>

\* "reconstructed_code += token.value + ' '" over the tokens that are not EOF.
RECURSIVE reconstructed_code(_)
reconstructed_code(toks) ==
    IF toks = <<>> THEN <<>>
    ELSE (IF Head(toks).type # "EOF" THEN Lit(Head(toks).value) \o <<" ">> ELSE <<>>)
             \o reconstructed_code(Tail(toks))

\* The CODE node: one child per token that is not EOF.
code_node(toks) ==
    ASTNode("CODE", None,
            [k \in 1..Len(SelectSeq(toks, LAMBDA t : t.type # "EOF")) |->
                ASTNode(SelectSeq(toks, LAMBDA t : t.type # "EOF")[k].type,
                        SelectSeq(toks, LAMBDA t : t.type # "EOF")[k].value, <<>>)])

\* SimpleSyntaxAnalyzer.parse that always rebuilds the text from the tokens.
simple_parse_reconstructing(toks, given_code) ==
    ASTNode("PROGRAM", None, <<code_node(toks)>>)
        @@ [original_code |-> Strip(reconstructed_code(toks))]

\* SimpleSyntaxAnalyzer.parse: the PROGRAM node with its original_code attribute.
simple_parse(toks, given_code) ==
    ASTNode("PROGRAM", None, <<code_node(toks)>>)
        @@ [original_code |-> IF given_code # NoText THEN given_code
                              ELSE Strip(reconstructed_code(toks))]

\* SimpleSemanticAnalyzer.analyze: what it returns and the error list it leaves.
simple_analyze(node) == [result |-> TRUE, errors |-> <<>>]

\* SimpleCodeGenerator.generate.
simple_generate(node) ==
    IF "original_code" \in DOMAIN node THEN node.original_code
    ELSE <<"#", " ", "Error", ":", " ", "No se encontró el código original en el AST">>

----------------------------------------------------------------------------
(* The inputs *)

MaxTextLen == 3
MaxTokens == 3
MaxStatements == 2
MaxMapCalls == 2

SeqsUpTo(S, n) == UNION {[1..k -> S] : k \in 0..n}

\* The characters of the exhaustive input texts: letters that spell a Python
\* keyword ("if"), a mapped keyword ("si") and identifiers, an upper-case
\* letter, a digit, the dot of a float, a delimiter, white space, and two
\* symbols that normalize_text deletes, the operator and the quote.
TextAlphabet == {"i", "f", "s", "S", "5", ".", ":", " ", "=", "\""}

\* Well-formed single-statement-per-block programs, each with its structural
\* shape: the statement kinds in order, each with its nesting depth.
WellFormedPrograms == {
    [kind |-> "program", shape |-> <<<<"assign", 0>>>>,
     text |-> <<"x"," ","="," ","5">>],
    [kind |-> "program", shape |-> <<<<"call", 0>>>>,
     text |-> <<"f","(","x",")">>],
    [kind |-> "program", shape |-> <<<<"if", 0>>, <<"assign", 1>>>>,
     text |-> <<"i","f"," ","x",":","\n"," "," "," "," ","x"," ","="," ","5">>],
    [kind |-> "program", shape |-> <<<<"if", 0>>, <<"call", 1>>>>,
     text |-> <<"s","i"," ","x",":","\n"," "," "," "," ","f","(","x",")">>],
    [kind |-> "program", shape |-> <<<<"if", 0>>, <<"assign", 1>>, <<"else", 0>>, <<"call", 1>>>>,
     text |-> <<"i","f"," ","x",":","\n"," "," "," "," ","x"," ","="," ","5","\n","e","l","s",
           "e",":","\n"," "," "," "," ","f","(","x",")">>],
    [kind |-> "program", shape |-> <<<<"for", 0>>, <<"call", 1>>>>,
     text |-> <<"f","o","r"," ","i"," ","i","n"," ","x",":","\n"," "," "," "," ","f","(","i",
           ")">>],
    [kind |-> "program", shape |-> <<<<"while", 0>>, <<"assign", 1>>>>,
     text |-> <<"w","h","i","l","e"," ","x",":","\n"," "," "," "," ","x"," ","="," ","5">>],
    [kind |-> "program", shape |-> <<<<"def", 0>>, <<"assign", 1>>>>,
     text |-> <<"d","e","f"," ","f","(","a",")",":","\n"," "," "," "," ","x"," ","="," ","5">>],
    [kind |-> "program", shape |-> <<<<"assign", 0>>, <<"call", 0>>>>,
     text |-> <<"x"," ","="," ","5","\n","f","(","x",")">>],
    [kind |-> "program", shape |-> <<<<"while", 0>>, <<"call", 1>>, <<"assign", 0>>>>,
     text |-> <<"w","h","i","l","e"," ","x",":","\n"," "," "," "," ","f","(","x",")","\n","x",
           " ","="," ","5">>] }

\* 'si x mayor que cero entonces escribir x'
ConditionSentence ==
    <<"s","i"," ","x"," ","m","a","y","o","r"," ","q","u","e"," ","c","e","r","o"," ",
           "e","n","t","o","n","c","e","s"," ","e","s","c","r","i","b","i","r"," ","x">>

\* One-word texts: words that are mapping keys and special-token words, target
\* keywords, words of a special-token category only, a mapping key only, a
\* capitalised word and an identifier.
WordTexts ==
    { <<"s", "i">>,
      <<"s", "i", "n", "o">>,
      <<"p", "a", "r", "a">>,
      <<"m", "i", "e", "n", "t", "r", "a", "s">>,
      <<"f", "u", "n", "c", "i", "o", "n">>,
      <<"d", "e", "f">>,
      <<"i", "f">>,
      <<"e", "l", "s", "e">>,
      <<"f", "o", "r">>,
      <<"w", "h", "i", "l", "e">>,
      <<"d", "e", "f", "i", "n", "i", "r">>,
      <<"v", "a", "r">>,
      <<"m", "a", "y", "o", "r">>,
      <<"e", "n", "t", "e", "r", "o">>,
      <<"e", "n">>,
      <<"S", "i">>,
      <<"x">> }

SampleTexts == {ConditionSentence} \cup WordTexts

\* The tokens of the exhaustive token lists (positions are filled in by At).
TokenVocabulary ==
    { [type |-> "KEYWORD", value |-> "def"], [type |-> "KEYWORD", value |-> "if"],
      [type |-> "KEYWORD", value |-> "else"], [type |-> "KEYWORD", value |-> "for"],
      [type |-> "KEYWORD", value |-> "in"], [type |-> "KEYWORD", value |-> "si"],
      [type |-> "IDENTIFIER", value |-> "x"], [type |-> "OPERATOR", value |-> "="],
      [type |-> "INTEGER", value |-> "5"], [type |-> "DELIMITER", value |-> "("],
      [type |-> "DELIMITER", value |-> ")"], [type |-> "DELIMITER", value |-> ":"],
      [type |-> "EOF", value |-> ""] }

\* A token list from types and values: the k-th token at position k - 1.
At(tv) == [k \in 1..Len(tv) |-> Token(tv[k].type, tv[k].value, k - 1)]

kw(v) == [type |-> "KEYWORD", value |-> v]
id(v) == [type |-> "IDENTIFIER", value |-> v]
op(v) == [type |-> "OPERATOR", value |-> v]
int(v) == [type |-> "INTEGER", value |-> v]
dl(v) == [type |-> "DELIMITER", value |-> v]
eof == [type |-> "EOF", value |-> ""]

\* [IDENTIFIER x, OPERATOR =, INTEGER 5, EOF]
AssignmentTokens == At(<<id("x"), op("="), int("5"), eof>>)

\* [KEYWORD if, IDENTIFIER x, IDENTIFIER f, (, ), KEYWORD else, IDENTIFIER x, =, 5, EOF]
IfElseTokens ==
    At(<<kw("if"), id("x"), id("f"), dl("("), dl(")"), kw("else"), id("x"), op("="),
         int("5"), eof>>)

\* [KEYWORD for, IDENTIFIER i, KEYWORD in, IDENTIFIER i, EOF]
ForTokens == At(<<kw("for"), id("i"), kw("in"), id("i"), eof>>)

\* One KEYWORD token for every key and every value of KEYWORD_MAPPING.
KeywordTokens ==
    {At(<<kw(w), eof>>) : w \in DOMAIN KEYWORD_MAPPING
                                  \cup {KEYWORD_MAPPING[k] : k \in DOMAIN KEYWORD_MAPPING}}

\* The texts given to the simplified parser with a token list that was not
\* made from them; NoText: no text given.
AssignmentText == <<"x", " ", "=", " ", "5">>
SimpleTexts == {NoText, AssignmentText}

\* Block inputs: a header, ':', and two consecutive statements.  The first
\* statements name a, f; the second ones name b, g.
BlockHeaders ==
    { <<kw("if"), id("c")>>, <<kw("while"), id("c")>>,
      <<kw("for"), id("i"), kw("in"), id("c")>>,
      <<kw("def"), id("h"), dl("("), dl(")")>>,
      <<kw("def"), id("h"), dl("("), dl(")"), dl(":"), kw("if"), id("c")>> }
FirstStatements ==
    { <<id("a"), op("="), int("1")>>, <<id("f"), dl("("), id("a"), dl(")")>>, <<id("a")>>,
      <<kw("while"), id("a"), dl(":"), id("f"), dl("("), dl(")")>> }
SecondStatements ==
    { <<id("b"), op("="), int("2")>>, <<id("g"), dl("("), id("b"), dl(")")>>,
      <<dl("("), id("b"), dl(")")>>,
      <<kw("if"), id("b"), dl(":"), id("g"), dl("("), dl(")")>> }

\* The statement nodes of the ASTs given to analyze and generate directly:
\* well-shaped ones, ones that miss children, one of an unknown type.
Leaf(node_type, value) == ASTNode(node_type, value, <<>>)
EmptyFunction(name, params) ==
    ASTNode("FUNCTION_DEF", name,
            <<ASTNode("PARAMETERS", None, params), ASTNode("BLOCK", None, <<>>)>>)
Call(name, args) == ASTNode("FUNCTION_CALL", name, <<ASTNode("ARGUMENTS", None, args)>>)
StatementNodes ==
    { Leaf("VARIABLE", "x"), Leaf("VARIABLE", "p"), Leaf("VARIABLE", None),
      ASTNode("ASSIGNMENT", None, <<Leaf("VARIABLE", "x"), Leaf("LITERAL", "5")>>),
      ASTNode("ASSIGNMENT", None, <<Leaf("VARIABLE", "x")>>),
      Leaf("ASSIGNMENT", None),
      EmptyFunction("f", <<Leaf("PARAMETER", "p")>>),
      EmptyFunction("f", <<Leaf("PARAMETER", "q")>>),
      ASTNode("FUNCTION_DEF", "f",
              <<ASTNode("PARAMETERS", None, <<Leaf("PARAMETER", "p")>>),
                ASTNode("BLOCK", None, <<Call("f", <<Leaf("VARIABLE", "p")>>)>>)>>),
      Leaf("FUNCTION_DEF", "f"),
      Call("f", <<>>), Call("x", <<Leaf("VARIABLE", "x")>>), Leaf("FUNCTION_CALL", "f"),
      ASTNode("IF_STATEMENT", None, <<ASTNode("CONDITION", None, <<Leaf("VARIABLE", "x")>>)>>),
      Leaf("UNKNOWN", "x") }

\* Trees with a function of empty body at the top level and nested one and two
\* levels deep, in an if, a while and another function.
If(condition, statement) ==
    ASTNode("IF_STATEMENT", None,
            <<ASTNode("CONDITION", None, <<condition>>),
              ASTNode("THEN", None, <<ASTNode("BLOCK", None, <<statement>>)>>)>>)
While(condition, statement) ==
    ASTNode("WHILE_LOOP", None,
            <<ASTNode("CONDITION", None, <<condition>>),
              ASTNode("BODY", None, <<ASTNode("BLOCK", None, <<statement>>)>>)>>)
Assign(name, value) ==
    ASTNode("ASSIGNMENT", None, <<Leaf("VARIABLE", name), Leaf("LITERAL", value)>>)
Program(statements) == ASTNode("PROGRAM", None, statements)
EmptyFunctionASTs ==
    { EmptyFunction("f", <<>>),
      Program(<<EmptyFunction("f", <<>>)>>),
      Program(<<If(Leaf("VARIABLE", "x"),
                   EmptyFunction("g", <<Leaf("PARAMETER", "p"), Leaf("PARAMETER", "q")>>))>>),
      Program(<<ASTNode("FUNCTION_DEF", "h",
                        <<ASTNode("PARAMETERS", None, <<>>),
                          ASTNode("BLOCK", None,
                                  <<If(Leaf("VARIABLE", "x"), EmptyFunction("f", <<>>))>>)>>)>>),
      Program(<<Assign("x", "5"), While(Leaf("VARIABLE", "x"), EmptyFunction("f", <<>>))>>),
      Program(<<If(Leaf("VARIABLE", "x"), Assign("x", "5")), EmptyFunction("f", <<>>)>>) }

\* Trees in which a name is used where it is introduced: 'x = x' and
\* 'for i in i', alone and after a function of that name.
SelfAssign(name) ==
    ASTNode("ASSIGNMENT", None, <<Leaf("VARIABLE", name), Leaf("VARIABLE", name)>>)
SelfFor(name) ==
    ASTNode("FOR_LOOP", None,
            <<Leaf("VARIABLE", name),
              ASTNode("ITERABLE", None, <<Leaf("VARIABLE", name)>>),
              ASTNode("BODY", None, <<ASTNode("BLOCK", None, <<Leaf("VARIABLE", name)>>)>>)>>)
SelfReferenceASTs ==
    { Program(<<SelfAssign("x")>>), Program(<<SelfFor("i")>>),
      Program(<<EmptyFunction("x", <<>>), SelfAssign("x")>>),
      Program(<<EmptyFunction("i", <<>>), SelfFor("i")>>) }

\* Trees with a function defined in the body of another: g that calls itself,
\* g called after f, and g in the then-branch of an if whose else-branch
\* refers to f's parameter.
Function(name, params, statement) ==
    ASTNode("FUNCTION_DEF", name,
            <<ASTNode("PARAMETERS", None, params), ASTNode("BLOCK", None, <<statement>>)>>)
IfElse(condition, statement, otherwise) ==
    ASTNode("IF_STATEMENT", None,
            <<ASTNode("CONDITION", None, <<condition>>),
              ASTNode("THEN", None, <<ASTNode("BLOCK", None, <<statement>>)>>),
              ASTNode("ELSE", None, <<ASTNode("BLOCK", None, <<otherwise>>)>>)>>)
NestedRecursion == Program(<<Function("f", <<>>, Function("g", <<>>, Call("g", <<>>)))>>)
NestedThenCalled == Program(<<Function("f", <<>>, EmptyFunction("g", <<>>)), Call("g", <<>>)>>)
NestedThenElse ==
    Program(<<Function("f", <<Leaf("PARAMETER", "p")>>,
                       IfElse(Leaf("VARIABLE", "p"), EmptyFunction("g", <<>>),
                              Leaf("VARIABLE", "p")))>>)
NestedFunctionASTs == {NestedRecursion, NestedThenCalled, NestedThenElse}

\* A function whose body holds a definition without children: generating the
\* inner one raises IndexError while indent_level is 1.
RaisingBody == Program(<<Function("f", <<>>, Leaf("FUNCTION_DEF", "g"))>>)

\* Two functions of one name, the second referring to the parameter of the
\* first, and a function named like the global scope, followed by a reference
\* to its parameter.
SameNameTwice ==
    Program(<<EmptyFunction("f", <<Leaf("PARAMETER", "p")>>),
              Function("f", <<>>, Leaf("VARIABLE", "p"))>>)
NamedGlobal ==
    Program(<<EmptyFunction("global", <<Leaf("PARAMETER", "p")>>), Leaf("VARIABLE", "p")>>)

GivenASTs ==
    StatementNodes \cup EmptyFunctionASTs \cup SelfReferenceASTs \cup NestedFunctionASTs
        \cup {RaisingBody, SameNameTwice, NamedGlobal}
        \cup {ASTNode("PROGRAM", None, c) : c \in SeqsUpTo(StatementNodes, MaxStatements)}

----------------------------------------------------------------------------
(* The state machine *)

EmptyTable == ("global" :> << >>)

\* The scope names, symbol names and symbol types given to the SymbolTable's
\* methods; f is both a scope and a symbol, as a function's name is.
ScopeNames == {"f", "g"}
SymbolNames == {"x", "f"}
SymbolTypes == {"VARIABLE", "FUNCTION"}

Idle ==
    /\ normalized_text = <<>> /\ position = 0 /\ scan_log = <<>> /\ original_code = NoText
    /\ map_calls = 0 /\ before_map = <<>>
    /\ ast = NoAST /\ parse_raised = None /\ current_token_index = 0
    /\ symbols = EmptyTable /\ current_scope = "global" /\ errors = <<>>
    /\ is_valid = FALSE /\ visits = <<>> /\ sem_raised = FALSE
    /\ lookup_name = None /\ lookup_result = NoSymbol
    /\ code = <<>> /\ gen_raised = None /\ indent_level = 0
    /\ propagated = None

\* A run starts from a text given to tokenize, from a token list given to
\* parse, or from an AST given to analyze and generate.
InitText ==
    /\ text \in SeqsUpTo(TextAlphabet, MaxTextLen) \cup SampleTexts
    /\ source = [kind |-> "text"]
    /\ pc = "text" /\ tokens = <<>> /\ Idle

InitProgram ==
    /\ source \in WellFormedPrograms
    /\ text = source.text
    /\ pc = "text" /\ tokens = <<>> /\ Idle

InitTokens ==
    /\ tokens \in {At(tv) : tv \in SeqsUpTo(TokenVocabulary, MaxTokens)}
                      \cup {AssignmentTokens, IfElseTokens, ForTokens} \cup KeywordTokens
    /\ source = [kind |-> "tokens", given |-> tokens]
    /\ pc = "lexed" /\ text = <<>> /\ Idle

InitBlock ==
    /\ \E h \in BlockHeaders, s1 \in FirstStatements, s2 \in SecondStatements :
          /\ source = [kind |-> "block", header |-> At(h), first |-> At(s1 \o <<eof>>),
                       second |-> At(s2 \o <<eof>>)]
          /\ tokens = At(h \o <<dl(":")>> \o s1 \o s2 \o <<eof>>)
    /\ pc = "lexed" /\ text = <<>> /\ Idle

InitAST ==
    /\ \E given \in GivenASTs :
          /\ source = [kind |-> "ast", given |-> given]
          /\ Idle!1 /\ Idle!2 /\ Idle!4 /\ Idle!5 /\ Idle!6 /\ Idle!7 /\ Idle!8
          /\ ast = given /\ parse_raised = None /\ current_token_index = 0
    /\ pc = "parsed" /\ text = <<>> /\ tokens = <<>>

Init == InitText \/ InitProgram \/ InitTokens \/ InitBlock \/ InitAST

\* tokenize, lines 118-120.
Tokenize ==
    /\ pc = "text"
    /\ normalized_text' = normalize_text(text)
    /\ tokens' = <<>>
    /\ position' = 0
    /\ pc' = "scan"
    /\ UNCHANGED <<source, text, scan_log, map_calls, before_map, parseVars, semVars,
                   genVars, propagated>>

\* One iteration of tokenize's while loop, lines 122-139.
ScanStep ==
    /\ pc = "scan"
    /\ position < Len(normalized_text)
    /\ \E step \in {ScanAt(normalized_text, position)} :
           /\ tokens' = tokens \o step.emitted
           /\ position' = step.position
           /\ scan_log' = Append(scan_log, [from |-> position, to |-> step.position,
                                            emitted |-> Len(step.emitted),
                                            pattern |-> step.pattern])
    /\ UNCHANGED <<pc, source, text, normalized_text, map_calls, before_map, parseVars,
                   semVars, genVars, propagated>>

\* tokenize's return that forgets the end-of-file token.
tokenize_end_without_eof(toks, pos) == toks

\* tokenize, lines 141-144: the list returned.
tokenize_end(toks, pos) == Append(toks, Token("EOF", "", pos))

TokenizeReturn ==
    /\ pc = "scan"
    /\ position >= Len(normalized_text)
    /\ tokens' = tokenize_end(tokens, position)
    /\ pc' = "lexed"
    /\ UNCHANGED <<source, lexVars, map_calls, before_map, parseVars, semVars, genVars,
                   propagated>>

MapToPythonTokens ==
    /\ pc = "lexed"
    /\ map_calls < MaxMapCalls
    /\ before_map' = tokens
    /\ tokens' = map_to_python_tokens(tokens)
    /\ map_calls' = map_calls + 1
    /\ UNCHANGED <<pc, source, lexVars, parseVars, semVars, genVars, propagated>>

Parse ==
    /\ pc = "lexed"
    /\ \E r \in {parse(tokens)} :
           /\ ast' = r.ast
           /\ parse_raised' = r.raised
           /\ propagated' = r.propagated
    /\ original_code' = original_code
    /\ current_token_index' = parse_program(tokens).idx
    /\ pc' = "parsed"
    /\ UNCHANGED <<source, lexVars, tokVars, semVars, genVars>>

\* analyze on the AST; the pipeline stops when parse returned None.
Analyze ==
    /\ pc = "parsed"
    /\ ast # NoAST
    /\ \E r \in {analyze(symbols, current_scope, ast)} :
           /\ symbols' = r.symbols
           /\ current_scope' = r.current_scope
           /\ errors' = r.errors
           /\ visits' = r.visits
           /\ sem_raised' = r.raised
           /\ is_valid' = r.result
    /\ propagated' = None
    /\ pc' = "analyzed"
    /\ UNCHANGED <<source, lexVars, tokVars, parseVars, genVars, lookup_name, lookup_result>>

Generate ==
    /\ pc \in {"parsed", "analyzed"}
    /\ ast # NoAST
    /\ \E r \in {generate(ast, indent_level)} :
           /\ code' = r.code
           /\ gen_raised' = r.raised
           /\ indent_level' = r.level
           /\ propagated' = r.propagated
    /\ pc' = "generated"
    /\ UNCHANGED <<source, lexVars, tokVars, parseVars, semVars>>

\* parse, one iteration of parse_program's while loop at a time. parse sets
\* the cursor to 0 and enters parse_program with an empty PROGRAM node.
ParseBegin ==
    /\ pc = "lexed"
    /\ current_token_index' = 0
    /\ ast' = ASTNode("PROGRAM", None, <<>>)
    /\ parse_raised' = None
    /\ propagated' = None
    /\ pc' = "parsing"
    /\ UNCHANGED <<source, lexVars, tokVars, original_code, semVars, genVars>>

\* "statement = self.parse_statement(); program_node.add_child(statement)",
\* or the except clause of parse when the statement raised.
ParseStatement ==
    /\ pc = "parsing"
    /\ current_token(tokens, current_token_index).type # "EOF"
    /\ \E r \in {parse_statement(tokens, current_token_index)} :
           /\ current_token_index' = r.idx
           /\ parse_raised' = r.exc
           /\ IF r.exc # None
              THEN ast' = NoAST /\ pc' = "parsed"
              ELSE ast' = [ast EXCEPT !.children = Append(@, r.node)] /\ pc' = pc
    /\ UNCHANGED <<source, lexVars, tokVars, original_code, semVars, genVars, propagated>>

\* The while loop ends at an EOF token: parse returns the PROGRAM node.
ParseReturn ==
    /\ pc = "parsing"
    /\ current_token(tokens, current_token_index).type = "EOF"
    /\ pc' = "parsed"
    /\ UNCHANGED <<source, lexVars, tokVars, parseVars, semVars, genVars, propagated>>

\* main's simplified chain: SimpleSyntaxAnalyzer.parse on the tokens, with the
\* input text (or, for a token list given directly, any text or none).
SimpleParse ==
    /\ pc = "lexed"
    /\ map_calls <= 1
    /\ \E given_code \in (IF source.kind \in {"text", "program"} THEN {text} ELSE SimpleTexts) :
           /\ original_code' = given_code
           /\ ast' = simple_parse(tokens, given_code)
    /\ current_token_index' = current_token_index
    /\ parse_raised' = None
    /\ propagated' = None
    /\ pc' = "simple_parsed"
    /\ UNCHANGED <<source, lexVars, tokVars, semVars, genVars>>

SimpleAnalyze ==
    /\ pc = "simple_parsed"
    /\ \E r \in {simple_analyze(ast)} :
           /\ errors' = r.errors
           /\ is_valid' = r.result
    /\ propagated' = None
    /\ pc' = "simple_analyzed"
    /\ UNCHANGED <<source, lexVars, tokVars, parseVars, symbols, current_scope, visits,
                   sem_raised, lookup_name, lookup_result, genVars>>

SimpleGenerate ==
    /\ pc = "simple_analyzed"
    /\ is_valid
    /\ code' = simple_generate(ast)
    /\ propagated' = None
    /\ pc' = "simple_generated"
    /\ UNCHANGED <<source, lexVars, tokVars, parseVars, semVars, gen_raised, indent_level>>

\* The SymbolTable on its own: the calls of its four methods, in any order,
\* on the table as constructed.
TableOf(st) ==
    /\ symbols' = st.symbols
    /\ current_scope' = st.current_scope

TableState == [symbols |-> symbols, current_scope |-> current_scope]

TableUnchanged ==
    UNCHANGED <<source, lexVars, tokVars, parseVars, errors, is_valid, visits, sem_raised,
                genVars, propagated>>

EnterScope ==
    /\ pc \in {"table", "looked_up"}
    /\ \E scope_name \in ScopeNames : TableOf(enter_scope(TableState, scope_name))
    /\ pc' = "table"
    /\ UNCHANGED <<lookup_name, lookup_result>>
    /\ TableUnchanged

ExitScope ==
    /\ pc \in {"table", "looked_up"}
    /\ TableOf(exit_scope(TableState))
    /\ pc' = "table"
    /\ UNCHANGED <<lookup_name, lookup_result>>
    /\ TableUnchanged

AddSymbol ==
    /\ pc \in {"table", "looked_up"}
    /\ \E name \in SymbolNames, symbol_type \in SymbolTypes :
           TableOf(add_symbol(TableState, name, symbol_type))
    /\ pc' = "table"
    /\ UNCHANGED <<lookup_name, lookup_result>>
    /\ TableUnchanged

Lookup ==
    /\ pc \in {"table", "looked_up"}
    /\ \E name \in SymbolNames :
           /\ lookup_name' = name
           /\ lookup_result' = lookup(symbols, current_scope, name)
    /\ pc' = "looked_up"
    /\ UNCHANGED <<symbols, current_scope>>
    /\ TableUnchanged

Next ==
    \/ Tokenize
    \/ ScanStep
    \/ TokenizeReturn
    \/ MapToPythonTokens
    \/ Parse
    \/ Analyze
    \/ Generate
    \/ SimpleParse
    \/ SimpleAnalyze
    \/ SimpleGenerate

Spec == Init /\ [][Next]_vars

\* tokenize alone, on every text.  The loop is sequential code: a step that
\* can be taken is taken.
LexNext ==
    \/ Tokenize
    \/ ScanStep
    \/ TokenizeReturn

LexSpec == (InitText \/ InitProgram) /\ [][LexNext]_vars /\ WF_vars(LexNext)

\* A SymbolTable as constructed, and the calls of its methods.
InitTable ==
    /\ source = [kind |-> "table"]
    /\ text = <<>> /\ tokens = <<>>
    /\ pc = "table" /\ Idle

TableNext ==
    \/ EnterScope
    \/ ExitScope
    \/ AddSymbol
    \/ Lookup

TableSpec == InitTable /\ [][TableNext]_vars

\* A second call of analyze on the same SemanticAnalyzer, with the same AST.
AnalyzeAgain ==
    /\ pc = "analyzed"
    /\ \E r \in {analyze(symbols, current_scope, ast)} :
           /\ symbols' = r.symbols
           /\ current_scope' = r.current_scope
           /\ errors' = r.errors
           /\ visits' = r.visits
           /\ sem_raised' = r.raised
           /\ is_valid' = r.result
    /\ propagated' = None
    /\ pc' = "analyzed_again"
    /\ UNCHANGED <<source, lexVars, tokVars, parseVars, genVars, lookup_name, lookup_result>>

\* parse alone, on a token list given directly, statement by statement; every
\* step of the loop is taken as long as the loop has not ended.
ParseNext == ParseBegin \/ ParseStatement \/ ParseReturn
ParseSpec == (InitTokens \/ InitBlock) /\ [][ParseNext]_vars /\ WF_vars(ParseNext)

\* The SymbolTable's methods called directly, and parse and analyze on token
\* lists and on given trees.
ScopeNext ==
    \/ EnterScope
    \/ ExitScope
    \/ AddSymbol
    \/ Lookup
    \/ Parse
    \/ Analyze
    \/ AnalyzeAgain

ScopeSpec == (InitTable \/ InitTokens \/ InitBlock \/ InitAST) /\ [][ScopeNext]_vars

----------------------------------------------------------------------------
(* Properties *)

\* The runs whose token list is what tokenize returned.
FromText == source.kind \in {"text", "program"}

\* C1: for every input text, tokenize returns a non-empty token sequence whose
\* last token has type EOF and value '', and no other token of the sequence
\* has type EOF; no category of SPECIAL_TOKENS is named EOF, so no word of the
\* text can be given that type.
TokenizeEndsWithSingleEOF ==
    /\ \A k \in 1..Len(SPECIAL_TOKENS) : SPECIAL_TOKENS[k].type # "EOF"
    /\ (pc = "lexed" /\ FromText /\ map_calls = 0) =>
          /\ tokens # <<>>
          /\ tokens[Len(tokens)].type = "EOF"
          /\ tokens[Len(tokens)].value = ""
          /\ \A k \in 1..(Len(tokens) - 1) : tokens[k].type # "EOF"

\* tokenize has returned, for a text that holds several lexemes.
TokenizeReturnedSeveralTokens ==
    /\ pc = "lexed" /\ FromText /\ map_calls = 0
    /\ Len(tokens) >= 3
    /\ tokens[Len(tokens)].type = "EOF"

\* The structural shape of a generated text: for each statement line (the
\* comment lines left out), the kind of the statement and its nesting depth.
LeadingSpaces(line) == Len(line) - Len(LStrip(line))
LineKind(stripped) ==
    IF Head(stripped) \in {"def", "if", "else", "for", "while"} THEN Head(stripped)
    ELSE IF \E k \in 1..Len(stripped) : stripped[k] = "=" THEN "assign"
    ELSE IF \E k \in 1..Len(stripped) : stripped[k] = "(" THEN "call"
    ELSE "expr"
RECURSIVE LinesShape(_)
LinesShape(lines) ==
    IF lines = <<>> THEN <<>>
    ELSE IF Strip(Head(lines)) = <<>> \/ Head(Strip(Head(lines))) = "#"
    THEN LinesShape(Tail(lines))
    ELSE <<<<LineKind(Strip(Head(lines))), LeadingSpaces(Head(lines)) \div indent_size>>>>
             \o LinesShape(Tail(lines))
CodeShape(c) == LinesShape(Split(c, <<>>))

\* C2: for a well-formed single-statement-per-block input text x,
\* generate(parse(tokenize(x))) has the structural shape of x: the same
\* statement kinds in the same order at the same nesting depth.
GeneratePreservesShape ==
    (pc = "generated" /\ source.kind = "program" /\ map_calls = 0) =>
        CodeShape(code) = source.shape

\* C3: parse never propagates an exception to its caller: for every token
\* list it returns a PROGRAM root node, or None when the descent raised.
ParseNeverPropagates ==
    (pc = "parsed" /\ source.kind # "ast") =>
        /\ propagated = None
        /\ IF parse_raised # None THEN ast = NoAST
           ELSE ast # NoAST /\ ast.type = "PROGRAM"

\* parse has returned None for a token list on which the descent raised.
ParseReturnedNoneAfterError ==
    /\ pc = "parsed" /\ source.kind = "tokens"
    /\ parse_raised # None /\ ast = NoAST

\* The number of nodes of a tree that the traversal is to check against the
\* symbol table (VARIABLE references, FUNCTION_CALL and FUNCTION_DEF nodes),
\* whether or not the traversal gets to them.
Slice(s, m, n) == SubSeq(s, m, IF n > Len(s) THEN Len(s) ELSE n)
RECURSIVE Checks(_), ChecksOf(_)
ChecksOf(children) ==
    IF children = <<>> THEN 0 ELSE Checks(Head(children)) + ChecksOf(Tail(children))
Checks(node) ==
    CASE node.type = "VARIABLE"      -> 1
      [] node.type = "FUNCTION_CALL" ->
            1 + (IF node.children = <<>> THEN 0 ELSE ChecksOf(node.children[1].children))
      [] node.type = "FUNCTION_DEF"  -> 1 + ChecksOf(Slice(node.children, 2, 2))
      [] node.type = "IF_STATEMENT"  -> ChecksOf(Slice(node.children, 1, 3))
      [] node.type = "FOR_LOOP"      -> ChecksOf(Slice(node.children, 2, 3))
      [] node.type = "WHILE_LOOP"    -> ChecksOf(Slice(node.children, 1, 2))
      [] node.type = "ASSIGNMENT"    -> ChecksOf(Slice(node.children, 2, 2))
      [] OTHER                       -> ChecksOf(node.children)

\* A check that found an error: an undefined variable, a call of something
\* undefined or not a function, a definition of a name already defined.
FailedVisit(v) ==
    CASE v.node = "VARIABLE"      -> v.found = None
      [] v.node = "FUNCTION_CALL" -> v.found # "FUNCTION"
      [] v.node = "FUNCTION_DEF"  -> v.found # None
      [] OTHER                    -> FALSE
FailedVisits == {k \in 1..Len(visits) : FailedVisit(visits[k])}

NoUndefinedReference ==
    \A k \in 1..Len(visits) :
        visits[k].node \in {"VARIABLE", "FUNCTION_CALL"} => visits[k].found # None

GenerateNeverRaises ==
    pc = "generated" =>
        /\ propagated = None
        /\ gen_raised # None =>
              /\ code = ErrorComment(gen_raised)
              /\ Len(Split(code, <<>>)) = 1
              /\ Str(SubSeq(code, 1, Len(code) - 1)) = "# Error en la generación de código: "

\* generate has returned the error comment for a tree whose traversal raised.
GenerateReturnedErrorComment ==
    /\ pc = "generated" /\ source.kind = "ast"
    /\ gen_raised # None
    /\ code = ErrorComment(gen_raised)

\* C7: for every token list T, map_to_python_tokens(map_to_python_tokens(T))
\* equals map_to_python_tokens(T) token by token.
MapToPythonTokensIdempotent ==
    map_calls >= 2 => tokens = before_map

\* map_to_python_tokens has been applied twice to a list that the first
\* application changed.
MappedTwiceAfterChange ==
    /\ map_calls = 2 /\ source.kind = "tokens"
    /\ source.given # tokens
    /\ pc = "lexed"

\* Whether the node occurs in the tree, at the root or below it.
RECURSIVE Occurs(_, _)
Occurs(node, tree) ==
    \/ tree = node
    \/ \E k \in 1..Len(tree.children) : Occurs(node, tree.children[k])

\* Whether every BLOCK node of the tree holds at most one statement.
RECURSIVE SingleStatementBlocks(_)
SingleStatementBlocks(tree) ==
    /\ tree.type = "BLOCK" => Len(tree.children) <= 1
    /\ \A k \in 1..Len(tree.children) : SingleStatementBlocks(tree.children[k])

\* The statement a token list of one statement parses to.
StatementOf(toks) == parse(toks).ast.children[1]

FromBlock == source.kind = "block"

\* The second statement opens with '(' right after the identifier that ends
\* the first: the two read as one call.
ReadAsOneCall ==
    /\ source.second[1].value = "("
    /\ source.first[Len(source.first) - 1].type = "IDENTIFIER"

\* C8 as stated: given a block with two consecutive statements after ':', the
\* parser retains only the first statement in the block and the second does
\* not appear anywhere in the AST.
SecondStatementDropped ==
    (pc = "parsed" /\ FromBlock) =>
        /\ ast # NoAST
        /\ SingleStatementBlocks(ast)
        /\ ~Occurs(StatementOf(source.second), ast)

\* C8: given a block with two consecutive statements after ':', the block
\* retains only the first statement, and the second is not dropped: it is the
\* child of PROGRAM that follows the statement holding the block (or, when
\* it opens with '(' after an identifier, the arguments of a call in the block).
SecondStatementBecomesTopLevel ==
    (pc = "parsed" /\ FromBlock) =>
        /\ ast # NoAST
        /\ SingleStatementBlocks(ast)
        /\ IF ReadAsOneCall
           THEN /\ Len(ast.children) = 1
                /\ Occurs(Call(source.first[1].value, <<StatementOf(source.second)>>), ast)
           ELSE /\ Len(ast.children) = 2
                /\ Occurs(ASTNode("BLOCK", None, <<StatementOf(source.first)>>),
                          ast.children[1])
                /\ ~Occurs(StatementOf(source.second), ast.children[1])
                /\ ast.children[2] = StatementOf(source.second)

\* parse has returned the tree of a block input whose second statement is a
\* statement of its own.
ParsedBlockWithTwoStatements ==
    /\ pc = "parsed" /\ FromBlock /\ ~ReadAsOneCall
    /\ Len(ast.children) = 2
    /\ ast.children[2] = StatementOf(source.second)

FromAssignmentTokens == source.kind = "tokens" /\ source.given = AssignmentTokens

\* C9: for the tokens [IDENTIFIER x, OPERATOR =, INTEGER 5, EOF], parse
\* produces PROGRAM with the single child ASSIGNMENT(VARIABLE(x), LITERAL(5)),
\* analyze on a fresh analyzer registers x as a VARIABLE symbol in scope
\* 'global' and returns True, and generate emits the statement line 'x = 5'.
AssignmentEndToEnd ==
    FromAssignmentTokens =>
        /\ pc \in {"parsed", "analyzed", "generated"} =>
              ast = ASTNode("PROGRAM", None,
                            <<ASTNode("ASSIGNMENT", None,
                                      <<Leaf("VARIABLE", "x"), Leaf("LITERAL", "5")>>)>>)
        /\ pc = "analyzed" =>
              /\ is_valid /\ errors = <<>>
              /\ symbols = ("global" :> ("x" :> Symbol("x", "VARIABLE", "global")))
        /\ pc = "generated" =>
              /\ gen_raised = None
              /\ Str(code) = "# Código generado automáticamente\nx = 5"

\* The three stages have run on the tokens of the assignment.
AssignmentGenerated ==
    /\ FromAssignmentTokens /\ pc = "generated"
    /\ is_valid /\ "x" \in DOMAIN symbols["global"]
    /\ code # <<>>

\* The checks of VARIABLE references of the given name that found nothing.
UndefinedReferences(name) ==
    {k \in 1..Len(visits) : /\ visits[k].node = "VARIABLE" /\ visits[k].found = None
                            /\ visits[k].name = name}
UndefinedVariableError(name) == "Variable '" \o Format(name) \o "' no definida"

\* C10: for every visit of a bare VARIABLE reference whose name lookup finds
\* neither in the current scope nor in the global one, analyze appends exactly
\* "Variable '<name>' no definida" to the error list and returns False; the
\* tokens of 'si x mayor que cero entonces escribir x' give False with
\* "Variable 'x' no definida" in the list.
UndefinedVariableReported ==
    pc = "analyzed" =>
        /\ \A v \in {visits[k] : k \in 1..Len(visits)} :
              /\ Cardinality(UndefinedReferences(v.name))
                    = Cardinality({k \in 1..Len(errors) :
                                       errors[k] = UndefinedVariableError(v.name)})
              /\ UndefinedReferences(v.name) # {} => ~is_valid
        /\ (source.kind = "text" /\ text = ConditionSentence) =>
              /\ ~is_valid
              /\ \E k \in 1..Len(errors) : errors[k] = "Variable 'x' no definida"

\* analyze has run on the tokens of the sentence and met the undefined x.
SentenceAnalyzed ==
    /\ pc = "analyzed" /\ source.kind = "text" /\ text = ConditionSentence
    /\ UndefinedReferences("x") # {}

\* The tree is a PROGRAM of two FUNCTION_DEF nodes of one name, each with its
\* PARAMETERS and its BLOCK.
TwoDefinitionsOfOneName ==
    /\ source.kind = "ast" /\ ast.type = "PROGRAM" /\ Len(ast.children) = 2
    /\ \A k \in 1..2 : ast.children[k].type = "FUNCTION_DEF" /\ Len(ast.children[k].children) = 2
    /\ ast.children[1].value = ast.children[2].value

RedefinitionError(name) == "Función '" \o Format(name) \o "' ya definida"

\* The visits of FUNCTION_DEF nodes, in the order of the traversal.
DefinitionVisits == SelectSeq(visits, LAMBDA v : v.node = "FUNCTION_DEF")

RECURSIVE EmptyDefinitions(_)
EmptyDefinitions(tree) ==
    (IF /\ tree.type = "FUNCTION_DEF" /\ Len(tree.children) = 2
        /\ tree.children[2] = ASTNode("BLOCK", None, <<>>)
     THEN {tree} ELSE {})
    \cup UNION {EmptyDefinitions(tree.children[k]) : k \in 1..Len(tree.children)}

\* 'def <name>(<params>):' for a definition, the parameters joined by ', '.
RECURSIVE ParameterList(_)
ParameterList(params) ==
    IF params = <<>> THEN <<>>
    ELSE <<Head(params).value>> \o (IF Len(params) > 1 THEN <<",", " ">> ELSE <<>>)
             \o ParameterList(Tail(params))
HeaderLine(def) ==
    <<"def", " ", def.value, "(">> \o ParameterList(def.children[1].children) \o <<")", ":">>

\* Line k of the lines is the header of the definition, line k + 1 is 'pass'
\* one level deeper, and no second 'pass' follows.
HeaderThenPass(lines, k, def) ==
    /\ Strip(lines[k]) = HeaderLine(def)
    /\ k + 1 <= Len(lines)
    /\ lines[k + 1] = Spaces(LeadingSpaces(lines[k]) + indent_size) \o <<"pass">>
    /\ k + 2 <= Len(lines) => Strip(lines[k + 2]) # <<"pass">>

\* C12: for a FUNCTION_DEF whose body block is empty, at any nesting depth,
\* generate emits the header line 'def <name>(<params>):' followed by a
\* single 'pass' line indented exactly one level (4 spaces) deeper than the
\* header; for a top-level f with no parameters the text is 'def f():',
\* newline, four spaces, 'pass'.
EmptyBodyRendersAsPass ==
    (pc = "generated" /\ source.kind = "ast" /\ gen_raised = None) =>
        /\ \A def \in EmptyDefinitions(ast) :
              \E k \in 1..Len(Split(code, <<>>)) : HeaderThenPass(Split(code, <<>>), k, def)
        /\ ast = EmptyFunction("f", <<>>) => Str(code) = "def f():\n    pass"
        /\ ast = Program(<<EmptyFunction("f", <<>>)>>) =>
              Str(code) = "# Código generado automáticamente\ndef f():\n    pass"

\* generate has emitted an empty function that sits two levels deep.
GeneratedNestedEmptyFunction ==
    /\ pc = "generated" /\ source.kind = "ast" /\ gen_raised = None
    /\ EmptyDefinitions(ast) # {}
    /\ \E k \in 1..Len(Split(code, <<>>)) :
          /\ LeadingSpaces(Split(code, <<>>)[k]) = 2 * indent_size
          /\ HeaderThenPass(Split(code, <<>>), k, EmptyFunction("f", <<>>))

\* C13: the simplified chain is an identity pass that never rejects: for every
\* token list T and every text s, SimpleSemanticAnalyzer.analyze of
\* SimpleSyntaxAnalyzer.parse(T, s) returns True with an empty error list, and
\* SimpleCodeGenerator.generate of that AST returns s unchanged, whatever T
\* contains.
SimpleChainIsIdentity ==
    original_code # NoText =>
        /\ pc = "simple_parsed" => ast # NoAST /\ ast.type = "PROGRAM" /\ propagated = None
        /\ pc \in {"simple_analyzed", "simple_generated"} => is_valid /\ errors = <<>>
        /\ pc = "simple_generated" => code = original_code /\ propagated = None

\* The simplified chain has returned a text that the tokens given with it
\* do not spell.
SimpleChainReturnedGivenText ==
    /\ pc = "simple_generated" /\ original_code # NoText
    /\ original_code # <<>>
    /\ Len(tokens) >= 3
    /\ Str(original_code) # Str(Strip(reconstructed_code(tokens)))
    /\ code = original_code

\* The words of the special-token categories, and the categories' tags.
SpecialWords == UNION {SPECIAL_TOKENS[k].words : k \in 1..Len(SPECIAL_TOKENS)}
CategoryTags == {SPECIAL_TOKENS[k].type : k \in 1..Len(SPECIAL_TOKENS)}

\* The type and value of the token of a word, by the first rule that applies.
FirstRule(word, token) ==
    IF word \in PythonKeywords THEN token.type = "KEYWORD" /\ token.value = word
    ELSE IF word \in DOMAIN KEYWORD_MAPPING
    THEN token.type = "KEYWORD" /\ token.value = KEYWORD_MAPPING[word]
    ELSE IF word \in SpecialWords
    THEN /\ \E k \in 1..Len(SPECIAL_TOKENS) :
               word \in SPECIAL_TOKENS[k].words /\ token.type = SPECIAL_TOKENS[k].type
         /\ token.value = word
    ELSE token.type = "IDENTIFIER" /\ token.value = word

\* tokenize has returned the tokens of a text that is one word.
WordTokenized == pc = "lexed" /\ source.kind = "text" /\ map_calls = 0 /\ text \in WordTexts

\* C14: a word token is classified by the first rule that applies, in this
\* order: a target-language keyword gives KEYWORD with the word; a key of the
\* keyword mapping gives KEYWORD with the mapped value; a word of a
\* special-token category gives the category's tag; otherwise IDENTIFIER.  So
\* si, sino, para, mientras, funcion are KEYWORD with the mapped value, never a
\* category tag, and def, if, else, for, while are KEYWORD.
WordClassifiedByFirstRule ==
    /\ WordTokenized =>
          /\ Len(tokens) = 2
          /\ FirstRule(Str(normalized_text), tokens[1])
          /\ Str(normalized_text) \in {"si", "sino", "para", "mientras", "funcion"} =>
                /\ tokens[1].type = "KEYWORD"
                /\ tokens[1].value
                      = [si |-> "if", sino |-> "else", para |-> "for", mientras |-> "while",
                         funcion |-> "def"][Str(normalized_text)]
          /\ Str(normalized_text) \in {"def", "if", "else", "for", "while"} =>
                tokens[1] = Token("KEYWORD", Str(normalized_text), 0)
    /\ (pc = "lexed" /\ FromText /\ map_calls = 0) =>
          \A k \in 1..Len(tokens) :
              /\ tokens[k].type \in CategoryTags \ {"OPERATOR"} =>
                    /\ tokens[k].value \in SpecialWords
                    /\ tokens[k].value \notin PythonKeywords \cup DOMAIN KEYWORD_MAPPING
              /\ tokens[k].type = "IDENTIFIER" =>
                    tokens[k].value \notin PythonKeywords \cup DOMAIN KEYWORD_MAPPING
                                               \cup SpecialWords

\* tokenize has classified 'mientras', a mapping key that is also a word of
\* the LOOP category.
MientrasTokenized ==
    /\ WordTokenized /\ Str(normalized_text) = "mientras"
    /\ tokens[1] = Token("KEYWORD", "while", 0)

\* What the k-th iteration of the scan loop did, against the patterns: it
\* started where the one before stopped, moved forward inside the text, and
\* either the first pattern that matches there decided the new position, with
\* at most one token, or no pattern matches and it moved by one character
\* with no token.
IterationAdvances(k) ==
    /\ scan_log[k].from = (IF k = 1 THEN 0 ELSE scan_log[k - 1].to)
    /\ scan_log[k].to > scan_log[k].from
    /\ scan_log[k].to <= Len(normalized_text)
    /\ scan_log[k].emitted <= 1
    /\ IF scan_log[k].pattern = 0
       THEN /\ \A j \in 1..Len(PatternNames) :
                   MatchEnd(j, normalized_text, scan_log[k].from) = NoMatch
            /\ scan_log[k].to = scan_log[k].from + 1
            /\ scan_log[k].emitted = 0
       ELSE /\ \A j \in 1..(scan_log[k].pattern - 1) :
                   MatchEnd(j, normalized_text, scan_log[k].from) = NoMatch
            /\ scan_log[k].to = MatchEnd(scan_log[k].pattern, normalized_text, scan_log[k].from)

ScanProgress ==
    /\ \A k \in 1..Len(scan_log) : IterationAdvances(k)
    /\ pc \in {"scan", "lexed"} =>
          /\ position = (IF scan_log = <<>> THEN 0 ELSE scan_log[Len(scan_log)].to)
          /\ Len(scan_log) <= Len(normalized_text)
    /\ pc = "lexed" => position = Len(normalized_text)

\* C15: tokenize terminates and never fails on any input: in every iteration
\* of the scan loop the position strictly increases, by the length of the first
\* matching pattern (at most one token emitted) or by exactly one character
\* with no token when no pattern matches, until the position reaches the end
\* of the normalized text.
TokenizeTerminates == []ScanProgress /\ ((pc = "text") ~> (pc = "lexed"))

\* tokenize has returned after an iteration in which no pattern matched and
\* one in which a token was emitted.
TokenizeReturnedAfterNoMatch ==
    /\ pc = "lexed"
    /\ \E k \in 1..Len(scan_log) : scan_log[k].pattern = 0
    /\ \E k \in 1..Len(scan_log) : scan_log[k].emitted = 1 /\ scan_log[k].to > scan_log[k].from + 1

\* The symbols stored under a name in a scope of the table (none when the
\* scope does not exist).
StoredIn(scope, name) ==
    IF scope \in DOMAIN symbols /\ name \in DOMAIN symbols[scope]
    THEN {symbols[scope][name]} ELSE {}

\* C16: lookup(name) returns the symbol stored under name in the current scope
\* when there is one, otherwise the one stored under name in the global scope,
\* otherwise None; a symbol stored only in a scope that is neither the current
\* one nor the global one is never returned.
LookupCurrentThenGlobal ==
    pc = "looked_up" =>
        /\ StoredIn(current_scope, lookup_name) # {} =>
               lookup_result \in StoredIn(current_scope, lookup_name)
        /\ StoredIn(current_scope, lookup_name) = {}
              /\ StoredIn("global", lookup_name) # {} =>
               lookup_result \in StoredIn("global", lookup_name)
        /\ StoredIn(current_scope, lookup_name) = {}
              /\ StoredIn("global", lookup_name) = {} =>
               lookup_result = NoSymbol
        /\ lookup_result # NoSymbol => lookup_result.scope \in {current_scope, "global"}

\* lookup, called in scope g, has returned None for a name stored in scope f
\* only; and the table holds a name in both the current and the global scope.
LookupMissedThirdScope ==
    /\ pc = "looked_up"
    /\ current_scope = "g"
    /\ StoredIn("f", lookup_name) # {}
    /\ lookup_result = NoSymbol
    /\ \E name \in SymbolNames :
           StoredIn("g", name) # {} /\ StoredIn("global", name) # {}

\* The runs in which parse was called on a token list, after its return.
ParseReturned == source.kind # "ast" /\ pc \in {"parsed", "analyzed", "generated"}

TypeAt(i) == current_token(tokens, i).type
ExpectMessage(token_type, found) ==
    "Se esperaba " \o token_type \o ", pero se encontró " \o found
ForWithoutInMessage == "Se esperaba 'in' después del identificador en un bucle for"

\* A token that parse_expression turns into a node by itself when the token t
\* follows it.
OneTokenExpression(i) ==
    /\ i < Len(tokens)
    /\ ~IsDelimiter(tokens, i, "(")
    /\ TypeAt(i) = "IDENTIFIER" => ~IsDelimiter(tokens, i + 1, "(")

\* The two situations, where the token list shows them at its start: a 'for'
\* without an IDENTIFIER after it, a parenthesized expression or a call's
\* argument list of one token without a DELIMITER after it; a 'for' and an
\* IDENTIFIER without 'in' after them.
LeadingExpectMismatch ==
    \/ IsKeyword(tokens, 0, "for") /\ TypeAt(1) # "IDENTIFIER"
    \/ IsDelimiter(tokens, 0, "(") /\ OneTokenExpression(1) /\ TypeAt(2) # "DELIMITER"
    \/ /\ TypeAt(0) = "IDENTIFIER" /\ IsDelimiter(tokens, 1, "(")
       /\ ~IsDelimiter(tokens, 2, ")") /\ OneTokenExpression(2)
       /\ ~IsDelimiter(tokens, 3, ",") /\ TypeAt(3) # "DELIMITER"
LeadingForWithoutIn ==
    IsKeyword(tokens, 0, "for") /\ TypeAt(1) = "IDENTIFIER" /\ ~IsKeyword(tokens, 2, "in")

\* What the token list must hold for the descent to raise with the message.
Evidence(msg) ==
    \/ /\ msg = ForWithoutInMessage
       /\ \E i \in 0..(Len(tokens) - 1) :
              /\ IsKeyword(tokens, i, "for") /\ TypeAt(i + 1) = "IDENTIFIER"
              /\ ~IsKeyword(tokens, i + 2, "in")
    \/ \E i \in 0..(Len(tokens) - 1) :
          /\ msg = ExpectMessage("IDENTIFIER", TypeAt(i + 1))
          /\ IsKeyword(tokens, i, "for") /\ TypeAt(i + 1) # "IDENTIFIER"
    \/ \E i \in 0..(Len(tokens) - 1), j \in 1..(Len(tokens) + 1) :
          /\ msg = ExpectMessage("DELIMITER", TypeAt(j))
          /\ IsDelimiter(tokens, i, "(") /\ j > i + 1 /\ TypeAt(j) # "DELIMITER"

RECURSIVE Blocks(_)
Blocks(tree) ==
    (IF tree.type = "BLOCK" THEN {tree} ELSE {})
        \cup UNION {Blocks(tree.children[k]) : k \in 1..Len(tree.children)}

\* The token list opens with 'if' and a condition of one token, so that the
\* THEN block is parsed from BlockStart on (after the ':' if there is one).
LeadingIf == IsKeyword(tokens, 0, "if") /\ OneTokenExpression(1)
BlockStart == IF IsDelimiter(tokens, 2, ":") THEN 3 ELSE 2
ThenBlock == ast.children[1].children[2].children[1]

\* C18: every BLOCK node of an AST returned by parse has at most one child:
\* parse_block consumes at most one statement, and none when the current token
\* is EOF.
EveryBlockHoldsAtMostOneStatement ==
    ParseReturned /\ ast # NoAST =>
        /\ \A b \in Blocks(ast) : Len(b.children) <= 1
        /\ LeadingIf =>
              /\ ThenBlock.type = "BLOCK"
              /\ Len(ThenBlock.children) = (IF TypeAt(BlockStart) = "EOF" THEN 0 ELSE 1)

\* parse has returned a tree whose THEN block, parsed at the end of the token
\* list, is empty.
ParsedEmptyBlockAtEOF ==
    /\ ParseReturned /\ ast # NoAST /\ LeadingIf
    /\ TypeAt(BlockStart) = "EOF"
    /\ ThenBlock = ASTNode("BLOCK", None, <<>>)

\* The types of a node's children, in order.
ChildTypes(node) == [k \in 1..Len(node.children) |-> node.children[k].type]

\* Whether every node of the tree has the children its type calls for.
RECURSIVE WellShaped(_)
WellShaped(tree) ==
    /\ tree.type = "FUNCTION_DEF" => ChildTypes(tree) = <<"PARAMETERS", "BLOCK">>
    /\ tree.type = "IF_STATEMENT" =>
           ChildTypes(tree) \in {<<"CONDITION", "THEN">>, <<"CONDITION", "THEN", "ELSE">>}
    /\ tree.type = "FOR_LOOP" => ChildTypes(tree) = <<"VARIABLE", "ITERABLE", "BODY">>
    /\ tree.type = "WHILE_LOOP" => ChildTypes(tree) = <<"CONDITION", "BODY">>
    /\ tree.type = "ASSIGNMENT" =>
           Len(tree.children) = 2 /\ tree.children[1].type = "VARIABLE"
    /\ tree.type = "FUNCTION_CALL" => ChildTypes(tree) = <<"ARGUMENTS">>
    /\ \A k \in 1..Len(tree.children) : WellShaped(tree.children[k])

\* The types of the nodes of a tree.
RECURSIVE NodeTypes(_)
NodeTypes(tree) ==
    {tree.type} \cup UNION {NodeTypes(tree.children[k]) : k \in 1..Len(tree.children)}

\* C19: every AST returned by parse is well-shaped: each FUNCTION_DEF has the
\* children [PARAMETERS, BLOCK]; each IF_STATEMENT [CONDITION, THEN] or
\* [CONDITION, THEN, ELSE]; each FOR_LOOP [VARIABLE, ITERABLE, BODY]; each
\* WHILE_LOOP [CONDITION, BODY]; each ASSIGNMENT [VARIABLE, expression]; each
\* FUNCTION_CALL exactly one ARGUMENTS child.
ParsedTreeIsWellShaped == ParseReturned /\ ast # NoAST => WellShaped(ast)

\* parse has returned a tree with an if statement that has an ELSE, a call and
\* an assignment.
ParsedIfElseWithCallAndAssignment ==
    /\ ParseReturned /\ ast # NoAST
    /\ {"IF_STATEMENT", "ELSE", "FUNCTION_CALL", "ASSIGNMENT"} \subseteq NodeTypes(ast)

\* The statements of the analyzed tree, when it is a PROGRAM.
Statements == IF ast.type = "PROGRAM" THEN ast.children ELSE <<>>

\* The tree is a PROGRAM that ends with 'n = n' or with a for loop over n
\* whose variable is n, after nothing or after a function definition of n.
EndsWithSelfReference(n) ==
    /\ Statements # <<>>
    /\ Statements[Len(Statements)].type \in {"ASSIGNMENT", "FOR_LOOP"}
    /\ Len(Statements[Len(Statements)].children) >= 2
    /\ Statements[Len(Statements)].children[1] = Leaf("VARIABLE", n)
    /\ \/ Statements[Len(Statements)] = SelfAssign(n)
       \/ /\ Statements[Len(Statements)].type = "FOR_LOOP"
          /\ Statements[Len(Statements)].children[2]
                 = ASTNode("ITERABLE", None, <<Leaf("VARIABLE", n)>>)
    /\ \/ Len(Statements) = 1
       \/ Len(Statements) = 2 /\ Statements[1] = EmptyFunction(n, <<>>)

\* The names the trees use.
TreeNames == {"x", "i", "f", "p", "q"}

\* C20: a name is registered before the expression that depends on it is
\* analyzed: the target of an ASSIGNMENT is added as VARIABLE (when lookup
\* does not find it) before its right-hand side is analyzed, and a FOR_LOOP
\* variable is added as VARIABLE, with no duplicate check and overwriting any
\* symbol of that name in the current scope, before its iterable and body are
\* analyzed; so 'x = x' and 'for i in i' on a fresh analyzer produce no
\* undefined-variable error.
NameRegisteredBeforeItsUse ==
    pc = "analyzed" =>
        \A n \in TreeNames :
            EndsWithSelfReference(n) =>
                /\ ~sem_raised
                /\ errors = <<>> /\ is_valid
                /\ UndefinedReferences(n) = {}
                /\ \E k \in 1..Len(visits) :
                       visits[k].node = "VARIABLE" /\ visits[k].name = n
                /\ symbols["global"][n] =
                       Symbol(n, IF Len(Statements) = 2
                                    /\ Statements[2].type = "ASSIGNMENT"
                                 THEN "FUNCTION" ELSE "VARIABLE", "global")
                /\ \A k \in 1..Len(visits) :
                       (visits[k].node = "VARIABLE" /\ visits[k].name = n) =>
                           visits[k].found = symbols["global"][n].type

\* analyze has run on 'for i in i' after a function named i: the loop has
\* overwritten the FUNCTION symbol and its iterable found the VARIABLE.
ForVariableOverwroteFunction ==
    /\ pc = "analyzed"
    /\ ast = Program(<<EmptyFunction("i", <<>>), SelfFor("i")>>)
    /\ symbols["global"]["i"].type = "VARIABLE"
    /\ errors = <<>>

\* The visits of FUNCTION_CALL nodes that name n, and how often a message is
\* in the error list.
CallVisits(n) == {k \in 1..Len(visits) : visits[k].node = "FUNCTION_CALL" /\ visits[k].name = n}
Times(msg) == Cardinality({k \in 1..Len(errors) : errors[k] = msg})
UndefinedFunctionError(name) == "Función '" \o Format(name) \o "' no definida"
NotAFunctionError(name) == "'" \o Format(name) \o "' no es una función"

\* C21: each visited FUNCTION_CALL node adds exactly one error "Función
\* '<name>' no definida" when lookup finds nothing, exactly one error
\* "'<name>' no es una función" when lookup finds a symbol whose kind is not
\* FUNCTION, and no error when it finds a FUNCTION symbol; in all three cases
\* every argument is then analyzed.
FunctionCallChecked ==
    pc = "analyzed" =>
        /\ \A v \in {visits[k] : k \in 1..Len(visits)} :
              /\ Times(UndefinedFunctionError(v.name))
                    = Cardinality({k \in CallVisits(v.name) : visits[k].found = None})
              /\ Times(NotAFunctionError(v.name))
                    = Cardinality({k \in CallVisits(v.name) :
                                       visits[k].found \notin {None, "FUNCTION"}})
        /\ ~sem_raised => Len(visits) = Checks(ast)

\* analyze has met a call of a variable: it reported it and went on to the
\* argument.
CalledAVariableWithArgument ==
    /\ pc = "analyzed" /\ ~sem_raised
    /\ errors = <<NotAFunctionError("x")>>
    /\ Len(visits) = 2
    /\ visits[1] = [node |-> "FUNCTION_CALL", name |-> "x", found |-> "VARIABLE"]
    /\ visits[2] = [node |-> "VARIABLE", name |-> "x", found |-> "VARIABLE"]

\* Whether a FUNCTION_DEF occurs in the tree, and whether one occurs below
\* another FUNCTION_DEF.
RECURSIVE HasDefinition(_), HasNestedDefinition(_)
HasDefinition(tree) ==
    \/ tree.type = "FUNCTION_DEF"
    \/ \E k \in 1..Len(tree.children) : HasDefinition(tree.children[k])
HasNestedDefinition(tree) ==
    \/ /\ tree.type = "FUNCTION_DEF"
       /\ \E k \in 1..Len(tree.children) : HasDefinition(tree.children[k])
    \/ \E k \in 1..Len(tree.children) : HasNestedDefinition(tree.children[k])

\* Every call visited after the definition of its name found a symbol.
CallsAfterDefinitionFound ==
    \A k \in 1..Len(visits), j \in 1..Len(visits) :
        (/\ k < j
         /\ visits[k].node = "FUNCTION_DEF" /\ visits[j].node = "FUNCTION_CALL"
         /\ visits[k].name = visits[j].name) => visits[j].found # None

ElseBranchAnalyzedInGlobal ==
    /\ visits = << [node |-> "FUNCTION_DEF", name |-> "f", found |-> None],
                   [node |-> "VARIABLE", name |-> "p", found |-> "PARAMETER"],
                   [node |-> "FUNCTION_DEF", name |-> "g", found |-> None],
                   [node |-> "VARIABLE", name |-> "p", found |-> None] >>
    /\ errors = <<UndefinedVariableError("p")>>
    /\ symbols["f"]["p"] = Symbol("p", "PARAMETER", "f")
    /\ current_scope = "global"

ExitScopeMakesGlobalCurrent == [][ExitScope => current_scope' = "global"]_vars

\* C23: exit_scope is not a stack pop: after any sequence of enter_scope calls
\* a single exit_scope makes 'global' the current scope; so after a
\* FUNCTION_DEF nested inside function f's body has been analyzed, the rest of
\* f's body (the else-branch of an if whose then-branch held the nested
\* definition) is analyzed in scope 'global', where f's parameters are not
\* found.
ExitScopeIsNotAPop ==
    /\ ExitScopeMakesGlobalCurrent
    /\ [](pc = "analyzed" /\ ast = NestedThenElse => ElseBranchAnalyzedInGlobal)

\* analyze has returned for the function with the nested definition, with the
\* parameter not found in the else-branch.
AnalyzedElseAfterNestedDefinition ==
    /\ pc = "analyzed" /\ ast = NestedThenElse
    /\ ~is_valid
    /\ visits[Len(visits)] = [node |-> "VARIABLE", name |-> "p", found |-> None]

\* The tree analyzed is one parse returned.
ParserProduced == source.kind \in {"tokens", "block"} /\ ast # NoAST

\* C24: in every reachable state of the SymbolTable (any sequence of
\* enter_scope, exit_scope, add_symbol and lookup) the 'global' scope exists
\* and the current scope is a key of the scope map, so add_symbol and lookup
\* never fail on a missing scope; and when analyze returns on a
\* parser-produced AST the current scope is 'global'.
CurrentScopeExists ==
    /\ "global" \in DOMAIN symbols
    /\ current_scope \in DOMAIN symbols
    /\ \A sc \in DOMAIN symbols : \A n \in DOMAIN symbols[sc] :
           symbols[sc][n].name = n /\ symbols[sc][n].scope \in DOMAIN symbols
    /\ (pc = "analyzed" /\ ParserProduced) => (current_scope = "global" /\ ~sem_raised)

\* analyze has returned on a parsed tree with a function definition: its scope
\* was entered and left.
AnalyzedParsedDefinition ==
    /\ pc = "analyzed" /\ ParserProduced
    /\ "FUNCTION_DEF" \in NodeTypes(ast)
    /\ Cardinality(DOMAIN symbols) >= 2
    /\ current_scope = "global"

\* C25: indent_level is never negative, and when generate returns, the error
\* comment included, indent_level has the value it had before the call (0 for
\* the generator of one pipeline run).
IndentLevelRestored ==
    /\ indent_level >= 0
    /\ pc = "generated" => indent_level = 0

\* generate has returned the error comment for a body that raised one level
\* deep.
GeneratedErrorCommentInBody ==
    /\ pc = "generated" /\ ast = RaisingBody
    /\ gen_raised = "list index out of range"
    /\ code = ErrorComment(gen_raised)
    /\ indent_level = 1

\* The statement lines of the generated text that open a block, and the
\* programs whose second statement follows a completed compound statement.
Headers == {"def", "if", "else", "for", "while"}
Compound == {"FUNCTION_DEF", "IF_STATEMENT", "FOR_LOOP", "WHILE_LOOP"}
FollowsCompound(node) ==
    /\ node.type = "PROGRAM" /\ Len(node.children) = 2
    /\ node.children[1].type \in Compound /\ Len(node.children[1].children) >= 2
    /\ node.children[2].type \in {"FUNCTION_DEF", "ASSIGNMENT"}
    /\ Len(node.children[2].children) = 2
ShapeMatchesBlocks(sh, node) ==
    /\ \A i \in 1..Len(sh) : sh[i][1] = "else" =>
           \E j \in 1..(i - 1) :
               /\ sh[j] = <<"if", sh[i][2]>>
               /\ \A k \in (j + 1)..(i - 1) : sh[k][2] > sh[i][2]
    /\ \A i \in 1..(Len(sh) - 1) : sh[i][1] \in Headers => sh[i + 1][2] = sh[i][2] + 1
    /\ FollowsCompound(node) => Cardinality({i \in 1..Len(sh) : sh[i][2] = 0}) = 2

\* C26: in the text generate returns, the 'else:' line of an if with an else
\* has the indentation of its 'if' line, each block body is one level deeper
\* than its header, and a top-level statement after a completed if, for,
\* while or def is at indentation 0.
GeneratedBlocksMatchAST ==
    (pc = "generated" /\ source.kind = "ast" /\ gen_raised = None) =>
        ShapeMatchesBlocks(CodeShape(code), ast)

\* generate has returned the text of an if with an else: the else line is one
\* level deeper than the if line.
GeneratedElseBelowIf ==
    /\ pc = "generated" /\ ast = NestedThenElse /\ gen_raised = None
    /\ \E i \in 1..Len(CodeShape(code)) : CodeShape(code)[i] = <<"if", 1>>
    /\ \E i \in 1..Len(CodeShape(code)) : CodeShape(code)[i] = <<"else", 3>>

\* The tree is the one SyntaxAnalyzer.parse returned for the tokens of a text.
ParsedFromText == FromText /\ pc \in {"parsed", "analyzed", "generated"} /\ ast # NoAST

\* C27: for every input text no token of tokenize has type STRING or the
\* value '=', '(' or ')': normalize_text deletes quotes, '=', parentheses and
\* the other non-word symbols before the scan; so a tree parse returns for
\* these tokens has no ASSIGNMENT and no FUNCTION_CALL node.
NoSymbolSurvivesNormalization ==
    /\ \A k \in 1..Len(normalized_text) : normalized_text[k] \notin {"=", "(", ")", "\"", "'"}
    /\ FromText =>
           \A k \in 1..Len(tokens) :
               tokens[k].type # "STRING" /\ tokens[k].value \notin {"=", "(", ")"}
    /\ ParsedFromText => NodeTypes(ast) \cap {"ASSIGNMENT", "FUNCTION_CALL"} = {}

\* parse has returned for 'x = 5' and a call 'f(x)' on the next line: the
\* tokens are x, 5 and fx, the tree three expression statements.
ParsedAssignmentTextWithoutAssignment ==
    /\ pc = "parsed" /\ ast # NoAST
    /\ text = <<"x", " ", "=", " ", "5", "\n", "f", "(", "x", ")">>
    /\ [k \in 1..Len(tokens) |-> tokens[k].value] = <<"x", "5", "fx", "">>
    /\ [k \in 1..Len(ast.children) |-> ast.children[k].type]
           = <<"VARIABLE", "LITERAL", "VARIABLE">>

\* Every call of parse_statement and of parse_expression that returns, at any
\* cursor of the token list, leaves the cursor further on; at and past the end
\* current_token is EOF.
EveryCallConsumes ==
    /\ \A i \in 0..(Len(tokens) + 1) :
           /\ parse_statement(tokens, i).idx > i
           /\ parse_expression(tokens, i).idx > i
    /\ \A i \in Len(tokens)..(Len(tokens) + 2) : current_token(tokens, i).type = "EOF"
    /\ pc = "parsed" => /\ ast = parse(tokens).ast
                        /\ parse_raised = parse(tokens).raised
                        /\ current_token_index = parse_program(tokens).idx

\* C28: parse terminates on every finite token list: the cursor never
\* decreases, every call of parse_statement and parse_expression consumes at
\* least one token, current_token is EOF once the cursor is at or past the end,
\* and the loop of parse_program ends, with an AST or with None.
ParseTerminates ==
    /\ []EveryCallConsumes
    /\ [][current_token_index' >= current_token_index]_vars
    /\ [][ParseStatement => current_token_index' > current_token_index]_vars
    /\ (pc = "lexed") ~> (pc = "parsed")

\* parse has returned after two iterations of the loop, the second of which
\* took the cursor past the end of a token list without EOF.
ParsedPastTheEnd ==
    /\ pc = "parsed" /\ ast # NoAST /\ Len(ast.children) = 2
    /\ current_token_index > Len(tokens)

\* The error a definition of an already defined name adds.
AlreadyDefinedError(name) == "Función '" \o Format(name) \o "' ya definida"
Reported(errs, msg) == \E k \in 1..Len(errs) : errs[k] = msg
Checked(vs) == [k \in 1..Len(vs) |-> <<vs[k].node, vs[k].name>>]

\* What a second analyze does, given the checks of the first.
SecondPass ==
    /\ Checked(visits') = Checked(visits)
    /\ Len(errors') = Cardinality({k \in 1..Len(visits') : FailedVisit(visits'[k])})
    /\ \A sc \in DOMAIN symbols :
           sc \in DOMAIN symbols' /\ DOMAIN symbols[sc] \subseteq DOMAIN symbols'[sc]
    /\ \A k \in 1..Len(visits') :
           /\ visits'[k].node = "FUNCTION_DEF" =>
                  /\ visits'[k].found # None
                  /\ Reported(errors', AlreadyDefinedError(visits'[k].name))
           /\ visits'[k].found = None => visits[k].found = None

\* C29: analyze resets the error list at entry and leaves the symbol table as
\* the previous call left it: a second analyze of the same AST on the same
\* analyzer reports "Función '<name>' ya definida" for every definition it
\* checks, also where the first call did not, and every name the first pass
\* defined, however late, is defined from the start of the second.
SecondAnalyzeSeesFirstTable == [][AnalyzeAgain => SecondPass]_vars

\* The second analyze of 'f(); def f(p)' has returned: the call that the first
\* pass reported as undefined is found, and the definition is reported as
\* already defined although the first pass accepted it.
ReanalyzedCallBeforeDefinition ==
    /\ pc = "analyzed_again"
    /\ ast = Program(<<Call("f", <<>>), EmptyFunction("f", <<Leaf("PARAMETER", "p")>>)>>)
    /\ analyze(EmptyTable, "global", ast).errors = <<"Función 'f' no definida">>
    /\ errors = <<AlreadyDefinedError("f")>>
    /\ visits[1] = [node |-> "FUNCTION_CALL", name |-> "f", found |-> "FUNCTION"]

\* The FUNCTION_DEF nodes of a tree that have their PARAMETERS child.
RECURSIVE FunctionDefs(_)
FunctionDefs(tree) ==
    (IF tree.type = "FUNCTION_DEF" /\ tree.children # <<>> THEN {tree} ELSE {})
        \cup UNION {FunctionDefs(tree.children[k]) : k \in 1..Len(tree.children)}
ParameterNames(def) == {def.children[1].children[k].value : k \in 1..Len(def.children[1].children)}

\* C30: a function's scope is identified by its name alone and enter_scope
\* reuses an existing scope without clearing it: after analyze the scopes are
\* 'global' and one per function name, each still holding the parameters of
\* every definition of that name; so the parameter of a first definition is
\* visible in the body of a second one of the same name, and the parameter of
\* a function named 'global' lands in the global scope and stays visible after
\* the definition.
ScopeIsSharedByName ==
    (pc = "analyzed" /\ ~sem_raised) =>
        /\ DOMAIN symbols = {"global"} \cup {d.value : d \in FunctionDefs(ast)}
        /\ \A d \in FunctionDefs(ast) : ParameterNames(d) \subseteq DOMAIN symbols[d.value]
        /\ ast \in {SameNameTwice, NamedGlobal} =>
               visits[Len(visits)] = [node |-> "VARIABLE", name |-> "p", found |-> "PARAMETER"]
        /\ ast = NamedGlobal =>
               /\ is_valid
               /\ symbols["global"]["p"] = Symbol("p", "PARAMETER", "global")

\* analyze has returned on the two functions named f: the second was reported
\* as already defined and its body found the parameter of the first.
AnalyzedSecondOfSameName ==
    /\ pc = "analyzed" /\ ast = SameNameTwice
    /\ errors = <<"Función 'f' ya definida">>
    /\ DOMAIN symbols = {"global", "f"}
    /\ symbols["f"]["p"] = Symbol("p", "PARAMETER", "f")
    /\ visits[Len(visits)].found = "PARAMETER"

====
